---- MODULE Spec2Model ----
(***************************************************************************)
(* The propositional engine of the Existential Tautological Generator     *)
(* (src/Kingdom of Heaven/existential_tautological_generator_etg_v_0.jsx): *)
(* tokenizer, precedence-climbing parser, evaluator, truth-table checker,  *)
(* bounded generator, and the App state that drives them.                  *)
(*                                                                         *)
(* A JavaScript string is a sequence of UTF-16 code units; it is modelled  *)
(* as a sequence of one-character strings.  The glyphs outside ASCII are   *)
(* written by their code point: "U+2192" is the right arrow, and so on.    *)
(***************************************************************************)
EXTENDS Integers, Sequences, FiniteSets, TLC

VARIABLES input, parsed, evaluation, atomsText, depth, generated, status,
          firstRun,  \* history: the first noted generation run, with its output
          heap,      \* the objects of the AST given to Circuit and of its layout
          tree,      \* Circuit's tree: the address of the laid out root (0: not drawn)
          spans      \* history: the calls of place, each with its x0 and x1

vars == <<input, parsed, evaluation, atomsText, depth, generated, status, firstRun, heap, tree, spans>>

(***************************************************************************)
(* Characters                                                              *)
(***************************************************************************)
NOT_SIGN == "U+00AC"
LEFT_ARROW == "U+2190"
RIGHT_ARROW == "U+2192"
LEFT_RIGHT_ARROW == "U+2194"
LOGICAL_AND == "U+2227"
LOGICAL_OR == "U+2228"
\* A character the tokenizer does not know, in the place of the identity sign.
APPROXIMATELY_EQUAL_TO == "U+2245"
IDENTICAL_TO == "U+2261"
TAB == "U+0009"
\* A white space character the tokenizer does not skip, in the place of the
\* line feed.
CARRIAGE_RETURN == "U+000D"
NEWLINE == "U+000A"

UpperCase == {"A","B","C","D","E","F","G","H","I","J","K","L","M",
              "N","O","P","Q","R","S","T","U","V","W","X","Y","Z"}
LowerCase == {"a","b","c","d","e","f","g","h","i","j","k","l","m",
              "n","o","p","q","r","s","t","u","v","w","x","y","z"}
Digits == {"0","1","2","3","4","5","6","7","8","9"}

\* The characters of the model in increasing UTF-16 code unit order.
CodeUnitOrder ==
  << TAB, NEWLINE, " ", "!", "&", "(", ")", ",", "-",
     "0","1","2","3","4","5","6","7","8","9", "<", ">",
     "A","B","C","D","E","F","G","H","I","J","K","L","M",
     "N","O","P","Q","R","S","T","U","V","W","X","Y","Z", "_",
     "a","b","c","d","e","f","g","h","i","j","k","l","m",
     "n","o","p","q","r","s","t","u","v","w","x","y","z", "|", "~",
     NOT_SIGN, LEFT_ARROW, RIGHT_ARROW, LEFT_RIGHT_ARROW,
     LOGICAL_AND, LOGICAL_OR, IDENTICAL_TO >>

Chars == {CodeUnitOrder[n] : n \in 1..Len(CodeUnitOrder)}

\* Rank of a character in code unit order (what String comparison compares).
CodeRank == [c \in Chars |-> CHOOSE n \in 1..Len(CodeUnitOrder) : CodeUnitOrder[n] = c]

isLetter(ch) == ch \in UpperCase \cup LowerCase
\* isIdentChar without the digits.
isIdentCharNoDigits(ch) == ch \in UpperCase \cup LowerCase \cup {"_"}
isIdentChar(ch) == ch \in UpperCase \cup LowerCase \cup Digits \cup {"_"}

\* An array built element by element, as a sequence whose elements are
\* computed once.
Array(f) == f \o <<>>

\* src[i] with a 0-based index; "undefined" past the end.
Undefined == "undefined"
CharAt(src, i) == IF i >= 0 /\ i < Len(src) THEN src[i + 1] ELSE Undefined
\* src.slice(i, j) with 0-based, end-exclusive indices.
Slice(src, i, j) == SubSeq(src, i + 1, IF j < Len(src) THEN j ELSE Len(src))

(***************************************************************************)
(* Errors: a thrown Error is a value of kind "Error"; an AST never has     *)
(* that kind.                                                              *)
(***************************************************************************)
Error(message) == [kind |-> "Error", message |-> message]
IsError(v) == v.kind = "Error"

(***************************************************************************)
(* tokenize                                                                *)
(***************************************************************************)
ARROW == <<"-", ">">>
DARROW == <<"<", "-", ">">>

RECURSIVE IdentEnd(_, _)
\* let j = i+1; while (j < src.length && isIdentChar(src[j])) j++;
IdentEnd(src, j) ==
  IF j < Len(src) /\ isIdentChar(CharAt(src, j)) THEN IdentEnd(src, j + 1) ELSE j

RECURSIVE tokenizeLoop(_, _, _)
tokenizeLoop(src, i, tokens) ==
  IF ~(i < Len(src)) THEN [kind |-> "tokens", tokens |-> tokens]
  ELSE LET c == CharAt(src, i) IN
    IF c = " " \/ c = NEWLINE \/ c = TAB THEN tokenizeLoop(src, i + 1, tokens)
    ELSE IF c = RIGHT_ARROW THEN tokenizeLoop(src, i + 1, Append(tokens, ARROW))
    ELSE IF c = LEFT_RIGHT_ARROW \/ c = IDENTICAL_TO
      THEN tokenizeLoop(src, i + 1, Append(tokens, DARROW))
    ELSE IF c = NOT_SIGN \/ c = "~" \/ c = "!"
      THEN tokenizeLoop(src, i + 1, Append(tokens, <<"!">>))
    ELSE IF c = LOGICAL_AND \/ c = "&"
      THEN tokenizeLoop(src, i + 1, Append(tokens, <<"&">>))
    ELSE IF c = LOGICAL_OR \/ c = "|"
      THEN tokenizeLoop(src, i + 1, Append(tokens, <<"|">>))
    ELSE IF c = "(" THEN tokenizeLoop(src, i + 1, Append(tokens, <<"(">>))
    ELSE IF c = ")" THEN tokenizeLoop(src, i + 1, Append(tokens, <<")">>))
    ELSE IF c = "-" /\ CharAt(src, i + 1) = ">"
      THEN tokenizeLoop(src, i + 2, Append(tokens, ARROW))
    ELSE IF c = "<" /\ Slice(src, i, i + 3) = DARROW
      THEN tokenizeLoop(src, i + 3, Append(tokens, DARROW))
    ELSE IF c = LEFT_ARROW /\ CharAt(src, i + 1) = RIGHT_ARROW
      THEN tokenizeLoop(src, i + 2, Append(tokens, DARROW))
    ELSE IF isLetter(c)
      THEN LET j == IdentEnd(src, i + 1) IN
           tokenizeLoop(src, j, Append(tokens, Slice(src, i, j)))
    ELSE Error(<<"Unexpected character", c, i>>)

tokenize(src) == tokenizeLoop(src, 0, <<>>)

(***************************************************************************)
(* Plain objects.  PREC and every env are ordinary objects: a property     *)
(* that is not an own property is looked up on Object.prototype.           *)
(***************************************************************************)
PROTO == <<"_","_","p","r","o","t","o","_","_">>

\* The property names every ordinary object inherits from Object.prototype.
ObjectPrototypeKeys ==
  {  <<"c","o","n","s","t","r","u","c","t","o","r">>,
     <<"h","a","s","O","w","n","P","r","o","p","e","r","t","y">>,
     <<"i","s","P","r","o","t","o","t","y","p","e","O","f">>,
     <<"p","r","o","p","e","r","t","y","I","s","E","n","u","m","e","r","a","b","l","e">>,
     <<"t","o","L","o","c","a","l","e","S","t","r","i","n","g">>,
     <<"t","o","S","t","r","i","n","g">>,
     <<"v","a","l","u","e","O","f">>,
     PROTO,
     <<"_","_","d","e","f","i","n","e","G","e","t","t","e","r","_","_">>,
     <<"_","_","d","e","f","i","n","e","S","e","t","t","e","r","_","_">>,
     <<"_","_","l","o","o","k","u","p","G","e","t","t","e","r","_","_">>,
     <<"_","_","l","o","o","k","u","p","S","e","t","t","e","r","_","_">> }

\* A JavaScript number that is either an integer or not a number at all
\* (what a function or a string becomes in a numeric comparison).
Num(n) == [nan |-> FALSE, n |-> n]
NaN == [nan |-> TRUE, n |-> 0]
\* a < b: false as soon as one side is NaN.
JSLess(a, b) == ~a.nan /\ ~b.nan /\ a.n < b.n
\* a + k for a number k: a function plus a number is a string, never a number.
JSPlus(a, k) == IF a.nan THEN NaN ELSE Num(a.n + k)

(***************************************************************************)
(* parseFormula                                                            *)
(***************************************************************************)
PREC_OrAboveAnd == (<<"!">> :> 4) @@ (<<"&">> :> 2) @@ (<<"|">> :> 3) @@ (ARROW :> 1) @@ (DARROW :> 0)
PREC == (<<"!">> :> 4) @@ (<<"&">> :> 3) @@ (<<"|">> :> 2) @@ (ARROW :> 1) @@ (DARROW :> 0)

\* op in PREC
InPREC(op) == op \in DOMAIN PREC \/ op \in ObjectPrototypeKeys
\* PREC[op], for op in PREC: inherited properties are functions (or an object).
PrecOf(op) == IF op \in DOMAIN PREC THEN Num(PREC[op]) ELSE NaN

\* tokens[i]; the empty string stands for undefined (both are falsy, and no
\* token is empty).
peek(tokens, i) == IF i < Len(tokens) THEN tokens[i + 1] ELSE <<>>

\* A parse step returns the AST and the new position, or throws.
Return(ast, i) == [kind |-> "return", ast |-> ast, i |-> i]

Var(name) == [kind |-> "var", name |-> name]
Not(value) == [kind |-> "not", value |-> value]
Bin(kind, left, right) == [kind |-> kind, left |-> left, right |-> right]

RECURSIVE parseAtom(_, _)
RECURSIVE parseExpr(_, _, _)
RECURSIVE parseExprLoop(_, _, _, _)

\* prec + (op === "!" ? 0 : 1): the minimum precedence of the right operand.
RightMinPrecSame(op, prec) == prec
RightMinPrec(op, prec) == JSPlus(prec, IF op = <<"!">> THEN 0 ELSE 1)

parseAtom(tokens, i) ==
  LET t == peek(tokens, i) IN
  IF t = <<>> THEN Error(<<"Unexpected end of input">>)
  ELSE IF t = <<"(">> THEN
    LET e == parseExpr(tokens, i + 1, Num(0)) IN
    IF IsError(e) THEN e
    ELSE LET got == peek(tokens, e.i) IN
         IF got # <<")">> THEN Error(<<"Expected", <<")">>, got>>)
         ELSE Return(e.ast, e.i + 1)
  ELSE IF t = <<"!">> THEN
    LET a == parseAtom(tokens, i + 1) IN
    IF IsError(a) THEN a ELSE Return(Not(a.ast), a.i)
  ELSE IF isLetter(t[1]) THEN Return(Var(t), i + 1)
  ELSE Error(<<"Unexpected token", t>>)

parseExpr(tokens, i, minPrec) ==
  LET a == parseAtom(tokens, i) IN
  IF IsError(a) THEN a ELSE parseExprLoop(tokens, a.ast, a.i, minPrec)

\* The while (true) loop of parseExpr, entered with the current left operand.
parseExprLoop(tokens, left, i, minPrec) ==
  LET op == peek(tokens, i) IN
  IF op = <<>> \/ ~InPREC(op) THEN Return(left, i)
  ELSE LET prec == PrecOf(op) IN
    IF JSLess(prec, minPrec) THEN Return(left, i)
    ELSE LET r == parseExpr(tokens, i + 1, RightMinPrec(op, prec)) IN
      IF IsError(r) THEN r
      ELSE IF op = <<"&">> THEN parseExprLoop(tokens, Bin("and", left, r.ast), r.i, minPrec)
      ELSE IF op = <<"|">> THEN parseExprLoop(tokens, Bin("or", left, r.ast), r.i, minPrec)
      ELSE IF op = ARROW THEN parseExprLoop(tokens, Bin("imp", left, r.ast), r.i, minPrec)
      ELSE IF op = DARROW THEN parseExprLoop(tokens, Bin("iff", left, r.ast), r.i, minPrec)
      ELSE Error(<<"Unknown operator", op>>)

\* parseFormula without the check that every token was consumed.
parseFormulaNoEndCheck(src) ==
  LET lexed == tokenize(src) IN
  IF IsError(lexed) THEN lexed
  ELSE LET r == parseExpr(lexed.tokens, 0, Num(0)) IN IF IsError(r) THEN r ELSE r.ast

\* The result of parseFormula(src): the AST, or the Error it throws.
parseFormula(src) ==
  LET lexed == tokenize(src) IN
  IF IsError(lexed) THEN lexed
  ELSE LET tokens == lexed.tokens
           r == parseExpr(tokens, 0, Num(0))
       IN IF IsError(r) THEN r
          ELSE IF r.i # Len(tokens) THEN Error(<<"Unexpected token", peek(tokens, r.i)>>)
          ELSE r.ast

(***************************************************************************)
(* Evaluation and truth tables                                             *)
(***************************************************************************)
\* Set.add: a Set keeps its elements in insertion order, each once.
SetAdd(acc, x) == IF \E n \in 1..Len(acc) : acc[n] = x THEN acc ELSE Append(acc, x)

RECURSIVE collectVarsNoLeaf(_, _)
\* collectVars that walks the tree and adds no name at a leaf.
collectVarsNoLeaf(ast, acc) ==
  IF ast.kind = "var" THEN acc
  ELSE IF ast.kind = "not" THEN collectVarsNoLeaf(ast.value, acc)
  ELSE collectVarsNoLeaf(ast.right, collectVarsNoLeaf(ast.left, acc))

RECURSIVE collectVars(_, _)
\* The Set of variable names of ast, as the sequence Array.from gives.
collectVars(ast, acc) ==
  IF ast.kind = "var" THEN SetAdd(acc, ast.name)
  ELSE IF ast.kind = "not" THEN collectVars(ast.value, acc)
  ELSE CHOOSE names \in { collectVars(ast.right, seen) :
                              seen \in { collectVars(ast.left, acc) } } : TRUE

\* An env is the function from its own property names to their values.
EmptyObject == [k \in {} |-> FALSE]

\* env[key] = v.  __proto__ is an accessor inherited from Object.prototype whose
\* setter ignores a value that is not an object: no own property is created.
JSSet(env, key, v) ==
  IF key = PROTO THEN env
  ELSE (key :> v) @@ env

\* !!env[key]: an own property gives its boolean; an inherited one is a function
\* or an object (truthy); anything else is undefined (falsy).
JSTruthy(env, key) ==
  IF key \in DOMAIN env THEN env[key] ELSE key \in ObjectPrototypeKeys

\* case "imp": (!L) || R, on the values of the two operands.
ImpAsAnd(l, r) == l /\ r
Imp(l, r) == (~l) \/ r

RECURSIVE evalASTExclusiveOr(_, _)
\* evalAST with "or" true when exactly one operand is.
evalASTExclusiveOr(ast, env) ==
  CASE ast.kind = "var" -> JSTruthy(env, ast.name)
    [] ast.kind = "not" -> ~evalASTExclusiveOr(ast.value, env)
    [] ast.kind = "and" -> evalASTExclusiveOr(ast.left, env) /\ evalASTExclusiveOr(ast.right, env)
    [] ast.kind = "or" -> evalASTExclusiveOr(ast.left, env) # evalASTExclusiveOr(ast.right, env)
    [] ast.kind = "imp" -> Imp(evalASTExclusiveOr(ast.left, env), evalASTExclusiveOr(ast.right, env))
    [] ast.kind = "iff" -> evalASTExclusiveOr(ast.left, env) = evalASTExclusiveOr(ast.right, env)

RECURSIVE evalAST(_, _)
evalAST(ast, env) ==
  CASE ast.kind = "var" -> JSTruthy(env, ast.name)
    [] ast.kind = "not" -> ~evalAST(ast.value, env)
    [] ast.kind = "and" -> evalAST(ast.left, env) /\ evalAST(ast.right, env)
    [] ast.kind = "or" -> evalAST(ast.left, env) \/ evalAST(ast.right, env)
    [] ast.kind = "imp" -> Imp(evalAST(ast.left, env), evalAST(ast.right, env))
    [] ast.kind = "iff" -> evalAST(ast.left, env) = evalAST(ast.right, env)

\* 1 << n on 32-bit signed integers: the shift count is taken modulo 32 and
\* bit 31 is the sign.
Shl1(n) == IF n % 32 = 31 THEN -2147483647 - 1 ELSE 2 ^ (n % 32)

\* !!(m & (1 << s)) for 0 <= m < 2^31.
BitSet(m, s) == IF s % 32 = 31 THEN FALSE ELSE (m \div (2 ^ (s % 32))) % 2 = 1

RECURSIVE assignRow(_, _, _, _)
\* for (let i=0; i<n; i++) env[vars[i]] = !!(m & (1<<(n-1-i)));
assignRow(varNames, m, i, env) ==
  IF ~(i < Len(varNames)) THEN env
  ELSE assignRow(varNames, m, i + 1,
                 JSSet(env, varNames[i + 1], BitSet(m, Len(varNames) - 1 - i)))

\* allAssignments stopping one row early.
allAssignmentsLastRowMissed(varNames) ==
  LET n == Len(varNames)
      limit == IF Shl1(n) > 0 THEN Shl1(n) - 1 ELSE 0
  IN Array([m1 \in 1..limit |-> assignRow(varNames, m1 - 1, 0, EmptyObject)])

allAssignments(varNames) ==
  LET n == Len(varNames)
      limit == IF Shl1(n) > 0 THEN Shl1(n) ELSE 0
  IN Array([m1 \in 1..limit |-> assignRow(varNames, m1 - 1, 0, EmptyObject)])

RECURSIVE StrLess(_, _)
\* a < b on strings: by code units, a proper prefix first.
StrLess(a, b) ==
  IF b = <<>> THEN FALSE
  ELSE IF a = <<>> THEN TRUE
  ELSE IF Head(a) = Head(b) THEN StrLess(Tail(a), Tail(b))
  ELSE CodeRank[Head(a)] < CodeRank[Head(b)]

RECURSIVE InsertSorted(_, _)
InsertSorted(sorted, x) ==
  IF sorted = <<>> THEN <<x>>
  ELSE IF StrLess(x, Head(sorted)) THEN <<x>> \o sorted
  ELSE <<Head(sorted)>> \o InsertSorted(Tail(sorted), x)

RECURSIVE SortStrings(_)
\* Array.prototype.sort() without a comparator (stable, by code units).
SortStrings(a) ==
  IF a = <<>> THEN <<>> ELSE InsertSorted(SortStrings(SubSeq(a, 1, Len(a) - 1)), a[Len(a)])

\* isTautology collecting the rows that evaluate to true.
isTautologyKeepsTrue(ast) ==
  LET sortedVars == SortStrings(collectVars(ast, <<>>))
      rows == allAssignments(sortedVars)
      falsifying == SelectSeq(rows, LAMBDA env : evalAST(ast, env))
  IN [tautology |-> Len(falsifying) = 0, falsifying |-> falsifying]

isTautology(ast) ==
  LET sortedVars == SortStrings(collectVars(ast, <<>>))
      rows == allAssignments(sortedVars)
      falsifying == SelectSeq(rows, LAMBDA env : ~evalAST(ast, env))
  IN [tautology |-> Len(falsifying) = 0, falsifying |-> falsifying]

(***************************************************************************)
(* Generator (propositional)                                               *)
(***************************************************************************)
\* OPS without the last operator.
OPS_WithoutIff == << "and", "or", "imp" >>
OPS == << "and", "or", "imp", "iff" >>

\* The characters of a node kind, as the template literal of key inserts them.
KindText == ("and" :> <<"a","n","d">>) @@ ("or" :> <<"o","r">>) @@
            ("imp" :> <<"i","m","p">>) @@ ("iff" :> <<"i","f","f">>)

RECURSIVE key(_)
key(n) ==
  IF n.kind = "var" THEN n.name
  ELSE IF n.kind = "not" THEN <<"(", "!">> \o key(n.value) \o <<")">>
  ELSE <<"(">> \o key(n.left) \o KindText[n.kind] \o key(n.right) \o <<")">>

RECURSIVE buildFromTwoLevels(_, _)
\* build with sub taken from the two levels below instead of the one.
buildFromTwoLevels(d, atoms) ==
  IF d = 0 THEN Array([n \in 1..Len(atoms) |-> Var(atoms[n])])
  ELSE LET sub == buildFromTwoLevels(d - 1, atoms)
                    \o (IF d >= 2 THEN buildFromTwoLevels(d - 2, atoms) ELSE <<>>)
           size == Len(sub)
       IN Array([n \in 1..(size + size * size * Len(OPS)) |->
             IF n <= size THEN Not(sub[n])
             ELSE LET j == n - size - 1 IN
                  Bin(OPS[(j % Len(OPS)) + 1],
                      sub[(j \div (size * Len(OPS))) + 1],
                      sub[((j % (size * Len(OPS))) \div Len(OPS)) + 1])])

RECURSIVE build(_, _)
\* build(d): the nodes of level d, in the order the loops push them.
build(d, atoms) ==
  IF d = 0 THEN Array([n \in 1..Len(atoms) |-> Var(atoms[n])])
  ELSE LET sub == build(d - 1, atoms)
           size == Len(sub)
       IN Array([n \in 1..(size + size * size * Len(OPS)) |->
             IF n <= size THEN Not(sub[n])
             ELSE LET j == n - size - 1 IN
                  Bin(OPS[(j % Len(OPS)) + 1],
                      sub[(j \div (size * Len(OPS))) + 1],
                      sub[((j % (size * Len(OPS))) \div Len(OPS)) + 1])])

RECURSIVE Concat(_)
Concat(seqs) == IF seqs = <<>> THEN <<>> ELSE Head(seqs) \o Concat(Tail(seqs))

\* The nodes handed to add, in order: build(0), build(1), ..., build(maxDepth).
AddOrder(maxDepth, atoms) ==
  Concat(Array([d1 \in 1..(maxDepth + 1) |-> build(d1 - 1, atoms)]))

\* add over a whole sequence: a node is pushed unless its key was seen.
FirstByKey(nodes) ==
  LET keys == Array([n \in 1..Len(nodes) |-> key(nodes[n])])
      first == { n \in 1..Len(nodes) : \A m \in 1..(n - 1) : keys[m] # keys[n] }
      flags == [n \in 1..Len(nodes) |-> [node |-> nodes[n], keep |-> n \in first]]
      kept == SelectSeq(flags, LAMBDA f : f.keep)
  IN \* when all keys differ every node is its key's first occurrence
     IF Cardinality({ keys[n] : n \in 1..Len(nodes) }) = Len(nodes) THEN nodes
     ELSE Array([n \in 1..Len(kept) |-> kept[n].node])

genFormulas(maxDepth, atoms) == FirstByKey(AddOrder(maxDepth, atoms))

(***************************************************************************)
(* Printing                                                                *)
(***************************************************************************)
\* Glyph with the two arrows exchanged.
GlyphArrowsSwapped == ("and" :> LOGICAL_AND) @@ ("or" :> LOGICAL_OR) @@
                      ("imp" :> LEFT_RIGHT_ARROW) @@ ("iff" :> RIGHT_ARROW)
Glyph == ("and" :> LOGICAL_AND) @@ ("or" :> LOGICAL_OR) @@
         ("imp" :> RIGHT_ARROW) @@ ("iff" :> LEFT_RIGHT_ARROW)

RECURSIVE astToInfixNoParens(_)
\* astToInfix without the parentheses around a binary node.
astToInfixNoParens(ast) ==
  IF ast.kind = "var" THEN ast.name
  ELSE IF ast.kind = "not" THEN <<NOT_SIGN, "(">> \o astToInfixNoParens(ast.value) \o <<")">>
  ELSE astToInfixNoParens(ast.left) \o <<" ", Glyph[ast.kind], " ">>
         \o astToInfixNoParens(ast.right)

RECURSIVE astToInfix(_)
astToInfix(ast) ==
  IF ast.kind = "var" THEN ast.name
  ELSE IF ast.kind = "not" THEN <<NOT_SIGN, "(">> \o astToInfix(ast.value) \o <<")">>
  ELSE <<"(">> \o astToInfix(ast.left) \o <<" ", Glyph[ast.kind], " ">>
         \o astToInfix(ast.right) \o <<")">>

(***************************************************************************)
(* The App: state and the Check tab                                        *)
(***************************************************************************)
\* null, as a value that can be compared with a result.
Null == [kind |-> "null"]

\* const parsed = useMemo(() => { try { return parseFormula(input) } catch (e) { return e } })
ParsedOf(text) == parseFormula(text)
\* const evaluation = useMemo(() => parsed instanceof Error ? null : isTautology(parsed))
EvaluationOf(p) == IF IsError(p) THEN Null ELSE isTautology(p)

\* useState("(P -> Q) & P -> Q"), written with the glyphs of the source.
InitialInput ==
  << "(", "P", " ", RIGHT_ARROW, " ", "Q", ")", " ", LOGICAL_AND, " ",
     "P", " ", RIGHT_ARROW, " ", "Q" >>
InitialAtomsText == << "P", ",", "Q" >>

\* The characters the user types at the end of the formula text (white space
\* comes with the texts pasted whole).
MaxInputLen == 5
InputChars ==
  { "P", "Q", "(", ")", "!", "&", "|", RIGHT_ARROW, LEFT_RIGHT_ARROW }

\* Texts the user pastes whole into the empty formula field.
ExampleInputs ==
  { << "P", " ", "|", " ", "!", "P" >>,
    << "P", " ", "&", " ", "!", "P" >>,
    << "(", "P", " ", "-", ">", " ", "Q", ")", " ", "&", " ", "P", " ", "-", ">", " ", "Q" >>,
    << "P", " ", "|", " ", "Q", " ", "|", " ", "!", "P" >>,
    << "P", " ", "-", ">", " ", "Q" >>,
    << "A", " ", "-", ">", " ", "B", " ", "-", ">", " ", "C" >>,
    << "(", "P", " ", "&", " ", "Q" >>,
    << "P", " ", "Q" >>,
    << "P", " ", "c","o","n","s","t","r","u","c","t","o","r", " ", "Q" >>,
    << "P", " ", "#", " ", "Q" >> }

Init ==
  /\ input = InitialInput
  /\ parsed = ParsedOf(InitialInput)
  /\ evaluation = EvaluationOf(ParsedOf(InitialInput))
  /\ atomsText = InitialAtomsText
  /\ depth = 2
  /\ generated = <<>>
  /\ status = <<>>
  /\ firstRun = Null
  /\ heap = <<>>
  /\ tree = 0
  /\ spans = <<>>

\* onChange={(e)=>setInput(e.target.value)}, then the two useMemo values.
SetInput(text) ==
  /\ input' = text
  /\ parsed' = ParsedOf(text)
  /\ evaluation' = EvaluationOf(ParsedOf(text))
  /\ UNCHANGED <<atomsText, depth, generated, status, firstRun, heap, tree, spans>>

TypeInput ==
  \E c \in InputChars :
    /\ Len(input) < MaxInputLen
    /\ SetInput(Append(input, c))

ClearInput ==
  /\ input # <<>>
  /\ SetInput(<<>>)

PasteInput ==
  \E text \in ExampleInputs :
    /\ input = <<>>
    /\ SetInput(text)

Next == TypeInput \/ ClearInput \/ PasteInput

Spec == Init /\ [][Next]_vars

(***************************************************************************)
(* The Generate tab                                                        *)
(***************************************************************************)
IsSpace(c) == c = " " \/ c = TAB \/ c = NEWLINE

RECURSIVE TrimStart(_)
TrimStart(t) == IF t # <<>> /\ IsSpace(Head(t)) THEN TrimStart(Tail(t)) ELSE t
RECURSIVE TrimEnd(_)
TrimEnd(t) ==
  IF t # <<>> /\ IsSpace(t[Len(t)]) THEN TrimEnd(SubSeq(t, 1, Len(t) - 1)) ELSE t

RECURSIVE SplitAtComma(_, _)
\* The pieces of text between commas; piece is the one being read.
SplitAtComma(text, piece) ==
  IF text = <<>> THEN << piece >>
  ELSE IF Head(text) = "," THEN << piece >> \o SplitAtComma(Tail(text), <<>>)
  ELSE SplitAtComma(Tail(text), Append(piece, Head(text)))

\* atomsText.split(/\s*,\s*/).filter(Boolean): a separator is a comma with the
\* white space around it, so a piece loses the white space next to a comma.
SplitAtoms(text) ==
  LET raw == SplitAtComma(text, <<>>)
      pieces == Array([n \in 1..Len(raw) |->
                  LET a == IF n > 1 THEN TrimStart(raw[n]) ELSE raw[n]
                  IN IF n < Len(raw) THEN TrimEnd(a) ELSE a])
  IN SelectSeq(pieces, LAMBDA piece : piece # <<>>)

ResultLimit == 64

\* results.push({ formula: astToInfix(ast), pretty: astToInfix(ast) })
Record(ast) == [formula |-> astToInfix(ast), pretty |-> astToInfix(ast)]

\* The candidates doGenerate keeps: at least one variable, and isTautology
\* reports a tautology.
KeptCandidates(cands) ==
  SelectSeq(cands, LAMBDA ast : Len(collectVars(ast, <<>>)) # 0 /\ isTautology(ast).tautology)

\* results.filter(r => { if (seen.has(r.formula)) return false; seen.add(r.formula); return true })
UniqByFormula(results) ==
  LET first == { n \in 1..Len(results) :
                   \A m \in 1..(n - 1) : results[m].formula # results[n].formula }
      flags == [n \in 1..Len(results) |-> [record |-> results[n], keep |-> n \in first]]
      kept == SelectSeq(flags, LAMBDA f : f.keep)
  IN \* when all texts differ every record is the first with its text
     IF Cardinality({ results[n].formula : n \in 1..Len(results) }) = Len(results)
     THEN results
     ELSE Array([n \in 1..Len(kept) |-> kept[n].record])

\* The ranking without the sort.
SortByLengthSkipped(results) == results

\* .sort((a,b) => a.formula.length - b.formula.length); Array sort is stable:
\* a record comes after the shorter ones and the earlier ones of its length.
SortByLength(results) ==
  LET count == Len(results)
      before(m, n) ==
        \/ Len(results[m].formula) < Len(results[n].formula)
        \/ Len(results[m].formula) = Len(results[n].formula) /\ m < n
      place == Array([n \in 1..count |-> Cardinality({ m \in 1..count : before(m, n) }) + 1])
  IN Array([p1 \in 1..count |-> results[CHOOSE n \in 1..count : place[n] = p1]])

\* .slice(0, 64)
Take(results, n) == SubSeq(results, 1, IF Len(results) < n THEN Len(results) ELSE n)

\* dedupe + sort by length + slice
Rank(results) == Take(SortByLength(UniqByFormula(results)), ResultLimit)

\* doGenerate with the new list put after the list held before.
GenerateListAppending(maxDepth, text) ==
  LET cands == genFormulas(maxDepth, SplitAtoms(text))
      kept == KeptCandidates(cands)
  IN generated \o Rank(Array([n \in 1..Len(kept) |-> Record(kept[n])]))

\* doGenerate with results kept from one run to the next.
GenerateListKeepingResults(maxDepth, text) ==
  LET cands == genFormulas(maxDepth, SplitAtoms(text))
      kept == KeptCandidates(cands)
  IN Rank(generated \o Array([n \in 1..Len(kept) |-> Record(kept[n])]))

\* The list doGenerate hands to setGenerated.
GenerateList(maxDepth, text) ==
  LET cands == genFormulas(maxDepth, SplitAtoms(text))
      kept == KeptCandidates(cands)
  IN Rank(Array([n \in 1..Len(kept) |-> Record(kept[n])]))

MaxDepth == 2
MaxAtomsLen == 2
MaxCandidates == 1500
AtomChars == { "P", "," }
\* Atom texts the user pastes whole into the empty atoms field.
ExampleAtoms ==
  { << "P", " ", ",", " ", "Q" >>,
    << "P", ",", "P", "o", "r", "P", ",", "Q" >>,
    << "P", ",", "P" >>,
    << "P", ",", NOT_SIGN, "(", "P", ")" >>,
    PROTO }

RECURSIVE LevelSize(_, _)
\* The number of nodes build(d) returns for n atoms, capped above MaxCandidates.
LevelSize(d, n) ==
  IF d = 0 THEN n
  ELSE LET size == LevelSize(d - 1, n) IN
       IF size > MaxCandidates THEN size ELSE size + size * size * Len(OPS)

RECURSIVE CandidateCount(_, _)
CandidateCount(d, n) ==
  IF d = 0 THEN n
  ELSE IF CandidateCount(d - 1, n) > MaxCandidates THEN CandidateCount(d - 1, n)
  ELSE CandidateCount(d - 1, n) + LevelSize(d, n)

\* onChange={e=>setAtomsText(e.target.value)}
SetAtomsText(text) ==
  /\ atomsText' = text
  /\ UNCHANGED <<input, parsed, evaluation, depth, generated, status, firstRun, heap, tree, spans>>

TypeAtoms ==
  \E c \in AtomChars :
    /\ Len(atomsText) < MaxAtomsLen
    /\ SetAtomsText(Append(atomsText, c))

ClearAtoms ==
  /\ atomsText # <<>>
  /\ SetAtomsText(<<>>)

PasteAtoms ==
  \E text \in ExampleAtoms :
    /\ atomsText = <<>>
    /\ SetAtomsText(text)

\* onChange={e=>setDepth(parseInt(e.target.value||"2"))}
SetDepth ==
  \E d \in 0..MaxDepth :
    /\ d # depth
    /\ depth' = d
    /\ UNCHANGED <<input, parsed, evaluation, atomsText, generated, status, firstRun, heap, tree, spans>>

\* A click on Generate, for settings whose candidates fit in memory.
GenerateClick ==
  /\ CandidateCount(depth, Len(SplitAtoms(atomsText))) <= MaxCandidates
  /\ \E uniq \in { GenerateList(depth, atomsText) } :
       /\ generated' = uniq
       /\ status' = << "Found", Len(uniq), "tautologies." >>
  /\ UNCHANGED <<input, parsed, evaluation, atomsText, depth, heap, tree, spans>>

DoGenerate == GenerateClick /\ UNCHANGED firstRun

NextGen == TypeAtoms \/ ClearAtoms \/ PasteAtoms \/ SetDepth \/ DoGenerate

SpecGen == Init /\ [][NextGen]_vars

(***************************************************************************)
(* Repeated generation runs.  The first run is noted with its inputs and   *)
(* its output, and whether the number of runs after it is odd.             *)
(***************************************************************************)
\* Atom texts the user replaces the content of the atoms field with.
RunAtoms == { << "P", " ", ",", " ", "Q" >>, << "P" >> }

PickAtoms ==
  \E text \in RunAtoms :
    /\ text # atomsText
    /\ SetAtomsText(text)

NotedGenerate ==
  /\ GenerateClick
  /\ firstRun' =
       IF firstRun = Null
       THEN [kind |-> "run", maxDepth |-> depth, atoms |-> SplitAtoms(atomsText),
             generated |-> generated', odd |-> FALSE]
       ELSE [firstRun EXCEPT !.odd = ~@]

NextRuns == PickAtoms \/ SetDepth \/ NotedGenerate

SpecRuns == Init /\ [][NextRuns]_vars

(***************************************************************************)
(* Properties of the parser, over the texts of the Check tab               *)
(***************************************************************************)
BinaryOps == { <<"&">>, <<"|">>, ARROW, DARROW }
KindOfOp == (<<"&">> :> "and") @@ (<<"|">> :> "or") @@ (ARROW :> "imp") @@ (DARROW :> "iff")
IsIdentifier(t) == t # <<>> /\ isLetter(t[1]) /\ \A n \in 1..Len(t) : isIdentChar(t[n])

\* The tokens of the current text (none when it does not lex).
InputTokens == LET lexed == tokenize(input) IN IF IsError(lexed) THEN <<>> ELSE lexed.tokens

\* The text is "A op B op C": three identifiers chained by one binary operator.
IsChain(toks) ==
  /\ Len(toks) = 5
  /\ IsIdentifier(toks[1]) /\ IsIdentifier(toks[3]) /\ IsIdentifier(toks[5])
  /\ toks[2] \in BinaryOps /\ toks[4] = toks[2]

\* C2 as stated: a chain "A op B op C" of one binary operator parses
\* right-nested, as op(A, op(B, C)).
C2_ChainRightNested ==
  IsChain(InputTokens) =>
    parsed = Bin(KindOfOp[InputTokens[2]], Var(InputTokens[1]),
                 Bin(KindOfOp[InputTokens[2]], Var(InputTokens[3]), Var(InputTokens[5])))

\* C2 amended: a chain "A op B op C" of one binary operator parses
\* left-nested, as op(op(A, B), C); "A -> B -> C" is Implies(Implies(A, B), C).
C2_ChainLeftNested ==
  IsChain(InputTokens) =>
    parsed = Bin(KindOfOp[InputTokens[2]],
                 Bin(KindOfOp[InputTokens[2]], Var(InputTokens[1]), Var(InputTokens[3])),
                 Var(InputTokens[5]))

\* An implication chain has been parsed.
C2_Witness ==
  /\ IsChain(InputTokens) /\ InputTokens[2] = ARROW
  /\ ~IsError(parsed) /\ parsed.kind = "imp" /\ parsed.left.kind = "imp"

\* C3: the printed form of every parsed AST parses back to the same AST.
C3_RoundTrip ==
  ~IsError(parsed) => parseFormula(astToInfix(parsed)) = parsed

\* A parsed AST with a binary node over a negation, printed and reparsed.
C3_Witness ==
  /\ ~IsError(parsed) /\ parsed.kind = "imp" /\ parsed.left.kind = "not"
  /\ parseFormula(astToInfix(parsed)) = parsed

\* The binding powers the specification states, lowest first.
StatedPower == (DARROW :> 0) @@ (ARROW :> 1) @@ (<<"|">> :> 2) @@ (<<"&">> :> 3)

\* C4: in "A lo B hi C" and "A hi B lo C" the tighter operator hi groups
\* first, and "!A op B" is op(Not(A), B).
C4_Precedence ==
  LET toks == InputTokens IN
  /\ ( /\ Len(toks) = 5
       /\ IsIdentifier(toks[1]) /\ IsIdentifier(toks[3]) /\ IsIdentifier(toks[5])
       /\ toks[2] \in BinaryOps /\ toks[4] \in BinaryOps )
     => /\ StatedPower[toks[2]] < StatedPower[toks[4]]
           => parsed = Bin(KindOfOp[toks[2]], Var(toks[1]),
                           Bin(KindOfOp[toks[4]], Var(toks[3]), Var(toks[5])))
        /\ StatedPower[toks[2]] > StatedPower[toks[4]]
           => parsed = Bin(KindOfOp[toks[4]],
                           Bin(KindOfOp[toks[2]], Var(toks[1]), Var(toks[3])),
                           Var(toks[5]))
  /\ ( /\ Len(toks) = 4 /\ toks[1] = <<"!">>
       /\ IsIdentifier(toks[2]) /\ toks[3] \in BinaryOps /\ IsIdentifier(toks[4]) )
     => parsed = Bin(KindOfOp[toks[3]], Not(Var(toks[2])), Var(toks[4]))

\* "A | B & C" has been parsed with & grouped first.
C4_Witness ==
  /\ Len(InputTokens) = 5 /\ InputTokens[2] = <<"|">> /\ InputTokens[4] = <<"&">>
  /\ ~IsError(parsed) /\ parsed.kind = "or" /\ parsed.right.kind = "and"

RECURSIVE Yield(_)
\* The tokens an AST is made of, left to right.
Yield(ast) ==
  IF ast.kind = "var" THEN <<ast.name>>
  ELSE IF ast.kind = "not" THEN <<<<"!">>>> \o Yield(ast.value)
  ELSE Yield(ast.left)
         \o << CHOOSE op \in BinaryOps : KindOfOp[op] = ast.kind >>
         \o Yield(ast.right)

IsParen(t) == t = <<"(">> \/ t = <<")">>
WithoutParens(toks) == SelectSeq(toks, LAMBDA t : ~IsParen(t))

RECURSIVE OpenAfter(_, _)
\* The number of parentheses open after the first n tokens; -1 once a ")"
\* closes nothing.
OpenAfter(toks, n) ==
  IF n = 0 THEN 0
  ELSE LET before == OpenAfter(toks, n - 1) IN
       IF before < 0 THEN before
       ELSE IF toks[n] = <<"(">> THEN before + 1
       ELSE IF toks[n] = <<")">> THEN before - 1
       ELSE before
Balanced(toks) == OpenAfter(toks, Len(toks)) = 0

\* An operand is required at position n: at the start, after "(", after an operator.
OperandRequired(toks, n) ==
  n = 1 \/ toks[n - 1] \in BinaryOps \cup { <<"!">>, <<"(">> }
\* Token n starts an operand although an expression has just ended.
Juxtaposed(toks, n) ==
  /\ n > 1
  /\ IsIdentifier(toks[n - 1]) \/ toks[n - 1] = <<")">>
  /\ IsIdentifier(toks[n]) \/ toks[n] \in { <<"(">>, <<"!">> }

\* C5: an AST is returned only when the whole token sequence is one
\* expression (every token is part of the AST, the parentheses balance);
\* empty input, a missing ")", an operator or ")" where an operand is
\* required, and tokens after a complete expression all end in an error.
C5_WholeInputOrError ==
  LET lexed == tokenize(input)
      toks == InputTokens IN
  /\ ~IsError(parsed) =>
       /\ ~IsError(lexed) /\ toks # <<>>
       /\ Balanced(toks)
       /\ Yield(parsed) = WithoutParens(toks)
  /\ ( \/ IsError(lexed)
       \/ toks = <<>>
       \/ ~Balanced(toks)
       \/ toks[Len(toks)] \in BinaryOps \cup { <<"!">>, <<"(">> }
       \/ \E n \in 1..Len(toks) :
            \/ OperandRequired(toks, n) /\ toks[n] \in BinaryOps \cup { <<")">> }
            \/ Juxtaposed(toks, n) )
     => IsError(parsed)

\* "P Q": a token is left after a complete expression, and the result is an error.
C5_Witness ==
  /\ Len(InputTokens) = 2 /\ IsIdentifier(InputTokens[1]) /\ IsIdentifier(InputTokens[2])
  /\ IsError(parsed)

(***************************************************************************)
(* The evaluator and the truth-table checker on their own: isTautology     *)
(* applied to formulas drawn from a bounded set.                           *)
(***************************************************************************)
MaxConnectives == 3
EvalAtoms == { <<"P">>, <<"Q">> }
BinaryKinds == { "and", "or", "imp", "iff" }

RECURSIVE FormulasOfSize(_, _)
\* Every formula over atoms with exactly n connectives.
FormulasOfSize(atoms, n) ==
  IF n = 0 THEN { Var(a) : a \in atoms }
  ELSE { Not(f) : f \in FormulasOfSize(atoms, n - 1) }
       \cup UNION { { Bin(k, l, r) : k \in BinaryKinds,
                                     l \in FormulasOfSize(atoms, m),
                                     r \in FormulasOfSize(atoms, n - 1 - m) }
                    : m \in 0..(n - 1) }

\* Distinct identifiers a0, a1, ..., d9.
WideName(n) == << <<"a", "b", "c", "d">>[((n - 1) \div 10) + 1],
                  <<"0","1","2","3","4","5","6","7","8","9">>[((n - 1) % 10) + 1] >>
RECURSIVE WideOrOf(_, _)
\* The disjunction of the wide names lo..hi, split in the middle.
WideOrOf(lo, hi) ==
  IF lo = hi THEN Var(WideName(lo))
  ELSE Bin("or", WideOrOf(lo, (lo + hi) \div 2), WideOrOf(((lo + hi) \div 2) + 1, hi))
\* A disjunction of n distinct variables.
WideOr(n) == WideOrOf(1, n)
\* Numbers of variables at and around the width of a 32-bit shift.
WideSizes == { 3, 4, 31, 32, 33 }

\* isTautology is handed every formula of at most MaxConnectives connectives
\* over EvalAtoms, taken by its top connective, and the wide disjunctions.
InitEval ==
  /\ \/ parsed \in FormulasOfSize(EvalAtoms, 0)
     \/ \E n \in 1..MaxConnectives :
          \E f \in FormulasOfSize(EvalAtoms, n - 1) : parsed = Not(f)
     \/ \E n \in 1..MaxConnectives : \E m \in 0..(n - 1) :
          \E k \in BinaryKinds, l \in FormulasOfSize(EvalAtoms, m),
             r \in FormulasOfSize(EvalAtoms, n - 1 - m) : parsed = Bin(k, l, r)
     \/ \E n \in WideSizes : parsed = WideOr(n)
  /\ input = astToInfix(parsed)
  /\ evaluation = Null
  /\ atomsText = InitialAtomsText
  /\ depth = 2
  /\ generated = <<>>
  /\ status = <<>>
  /\ firstRun = Null
  /\ heap = <<>>
  /\ tree = 0
  /\ spans = <<>>

\* evaluation = isTautology(parsed)
Evaluate ==
  /\ evaluation = Null
  /\ evaluation' = isTautology(parsed)
  /\ UNCHANGED <<input, parsed, atomsText, depth, generated, status, firstRun, heap, tree, spans>>

NextEval == Evaluate

SpecEval == InitEval /\ [][NextEval]_vars

(***************************************************************************)
(* Properties of the evaluator and the checker                             *)
(***************************************************************************)
NameSet(ast) == LET names == collectVars(ast, <<>>) IN { names[n] : n \in 1..Len(names) }
\* The rows isTautology enumerates for the current formula.
SortedNames == SortStrings(collectVars(parsed, <<>>))
Rows == allAssignments(SortedNames)

RECURSIVE IsPowerOfTwo(_, _)
\* n = 2^k, without computing 2^k.
IsPowerOfTwo(n, k) ==
  IF k = 0 THEN n = 1 ELSE n > 0 /\ n % 2 = 0 /\ IsPowerOfTwo(n \div 2, k - 1)

\* C1 as stated: isTautology reports a tautology exactly when the formula is
\* true under every total assignment to its variables.
C1_TautologyIffAllTrue ==
  evaluation # Null =>
    (evaluation.tautology <=>
       \A env \in [NameSet(parsed) -> BOOLEAN] : evalAST(parsed, env))

\* C6: the falsifying list is the rows that evaluate to false, each once and
\* in row order, and the flag says whether the list is empty.
C6_FalsifyingRows ==
  evaluation # Null =>
    LET falseIdx == { m \in 1..Len(Rows) : ~evalAST(parsed, Rows[m]) }
        nth(j) == CHOOSE m \in falseIdx : Cardinality({ x \in falseIdx : x <= m }) = j
        f == evaluation.falsifying
    IN /\ Len(f) = Cardinality(falseIdx)
       /\ \A j \in 1..Len(f) : f[j] = Rows[nth(j)]
       /\ evaluation.tautology = (Len(f) = 0)

\* A formula of two variables checked, with both true rows and false rows.
C6_Witness ==
  /\ evaluation # Null /\ Len(Rows) = 4
  /\ Len(evaluation.falsifying) = 2 /\ ~evaluation.tautology

\* C7 as stated: once isTautology has run on a formula of k variables there
\* are exactly 2^k rows, pairwise different, each total over exactly the
\* variables, the names in sorted order, and row m gives the i-th name bit
\* (k-1-i) of m.
C7_AllAssignmentsEnumerated ==
  evaluation # Null =>
  LET k == Len(SortedNames) IN
  /\ \A i \in 1..k : \A j \in 1..k : i < j => StrLess(SortedNames[i], SortedNames[j])
  /\ { SortedNames[i] : i \in 1..k } = NameSet(parsed)
  /\ IsPowerOfTwo(Len(Rows), k)
  /\ \A m \in 1..Len(Rows) : DOMAIN Rows[m] = NameSet(parsed)
  /\ \A m \in 1..Len(Rows) : \A n \in 1..Len(Rows) : m # n => Rows[m] # Rows[n]
  /\ \A m \in 1..Len(Rows) : \A i \in 1..k :
       Rows[m][SortedNames[i]] = (((m - 1) \div (2 ^ (k - i))) % 2 = 1)

RECURSIVE Subformulas(_)
Subformulas(ast) ==
  IF ast.kind = "var" THEN { ast }
  ELSE IF ast.kind = "not" THEN { ast } \cup Subformulas(ast.value)
  ELSE { ast } \cup Subformulas(ast.left) \cup Subformulas(ast.right)

\* The classical truth tables: <<left, right, result>>.
TruthTable ==
  [ and |-> { <<TRUE, TRUE, TRUE>>, <<TRUE, FALSE, FALSE>>,
              <<FALSE, TRUE, FALSE>>, <<FALSE, FALSE, FALSE>> },
    or  |-> { <<TRUE, TRUE, TRUE>>, <<TRUE, FALSE, TRUE>>,
              <<FALSE, TRUE, TRUE>>, <<FALSE, FALSE, FALSE>> },
    imp |-> { <<TRUE, TRUE, TRUE>>, <<TRUE, FALSE, FALSE>>,
              <<FALSE, TRUE, TRUE>>, <<FALSE, FALSE, TRUE>> },
    iff |-> { <<TRUE, TRUE, TRUE>>, <<TRUE, FALSE, FALSE>>,
              <<FALSE, TRUE, FALSE>>, <<FALSE, FALSE, TRUE>> } ]

\* The assignments a formula is tried on: all of them up to four variables,
\* the two constant ones beyond.
TestEnvs(ast) ==
  IF Cardinality(NameSet(ast)) <= 4 THEN [NameSet(ast) -> BOOLEAN]
  ELSE { [name \in NameSet(ast) |-> b] : b \in BOOLEAN }

\* C8: under every assignment covering the variables, every node of the
\* formula has its classical value: a Var its assigned value, Not the
\* negation, and And, Or, Implies, Iff the value of their truth table.
C8_ClassicalValue ==
  \A env \in TestEnvs(parsed) : \A node \in Subformulas(parsed) :
    CASE node.kind = "var" -> evalAST(node, env) = env[node.name]
      [] node.kind = "not" -> evalAST(node, env) = ~evalAST(node.value, env)
      [] OTHER ->
           << evalAST(node.left, env), evalAST(node.right, env), evalAST(node, env) >>
             \in TruthTable[node.kind]

\* An implication with a false row has been evaluated.
C8_Witness ==
  /\ evaluation # Null /\ parsed.kind = "imp" /\ parsed.right.kind = "iff"
  /\ Len(evaluation.falsifying) = 1

(***************************************************************************)
(* Properties of the generator                                             *)
(***************************************************************************)
Distinct(seq) == \A m \in 1..Len(seq) : \A n \in 1..Len(seq) : m # n => seq[m] # seq[n]
Range(seq) == { seq[n] : n \in 1..Len(seq) }

\* The ranked records of a run, each with the candidate it was printed from.
RankedWithAst(maxDepth, text) ==
  LET kept == KeptCandidates(genFormulas(maxDepth, SplitAtoms(text)))
  IN Rank(Array([n \in 1..Len(kept) |->
            [formula |-> astToInfix(kept[n]), pretty |-> astToInfix(kept[n]),
             ast |-> kept[n]]]))

\* The records of a run are those of gen, no two candidates have the same
\* key, and every candidate has a variable and is true under every assignment
\* to its variables.
DistinctTautologies(maxDepth, text, gen) ==
  LET recs == RankedWithAst(maxDepth, text) IN
  /\ gen = Array([n \in 1..Len(recs) |->
                    [formula |-> recs[n].formula, pretty |-> recs[n].pretty]])
  /\ \A m \in 1..Len(recs) : \A n \in 1..Len(recs) :
       m # n => key(recs[m].ast) # key(recs[n].ast)
  /\ \A n \in 1..Len(recs) :
       /\ NameSet(recs[n].ast) # {}
       /\ \A env \in [NameSet(recs[n].ast) -> BOOLEAN] : evalAST(recs[n].ast, env)

\* C9 as stated: for every depth and every list of distinct atoms, a
\* generation run yields records with pairwise different canonical keys, each
\* a tautology with at least one variable.
C9_DistinctTautologies ==
  [][ (DoGenerate /\ Distinct(SplitAtoms(atomsText)))
        => DistinctTautologies(depth, atomsText, generated') ]_vars

RECURSIVE FormulasUpToDepth(_, _)
\* Every formula over atoms whose depth is at most d.
FormulasUpToDepth(atoms, d) ==
  IF d = 0 THEN { Var(a) : a \in atoms }
  ELSE LET sub == FormulasUpToDepth(atoms, d - 1) IN
       sub \cup { Not(f) : f \in sub }
           \cup { Bin(k, l, r) : k \in BinaryKinds, l \in sub, r \in sub }

\* C10 as stated: every formula over the atoms of depth at most maxDepth is
\* among the candidates genFormulas returns.
C10_AllFormulasGenerated ==
  CandidateCount(depth, Len(SplitAtoms(atomsText))) <= MaxCandidates =>
    FormulasUpToDepth(Range(SplitAtoms(atomsText)), depth)
      \subseteq Range(genFormulas(depth, SplitAtoms(atomsText)))

\* The printed texts of the tautological candidates of a run, in generation order.
TautologyTexts(maxDepth, text) ==
  LET kept == KeptCandidates(genFormulas(maxDepth, SplitAtoms(text)))
  IN Array([n \in 1..Len(kept) |-> astToInfix(kept[n])])

\* gen is the ranking of texts: its records carry texts of the list, none twice;
\* a record stands before every record that is longer, or as long and first met
\* later in the list; the same holds between a record and every text left
\* out; and nothing is left out unless limit records are kept.
IsRankingOf(gen, texts, limit) ==
  LET count == Len(texts)
      firsts == { n \in 1..count : \A m \in 1..(n - 1) : texts[m] # texts[n] }
      pos == Array([n \in 1..Len(gen) |->
               IF \E i \in firsts : texts[i] = gen[n].formula
               THEN CHOOSE i \in firsts : texts[i] = gen[n].formula
               ELSE 0])
      before(i, j) ==
        \/ Len(texts[i]) < Len(texts[j])
        \/ Len(texts[i]) = Len(texts[j]) /\ i < j
  IN /\ \A n \in 1..Len(gen) :
          pos[n] # 0 /\ gen[n] = [formula |-> texts[pos[n]], pretty |-> texts[pos[n]]]
     /\ Len(gen) = IF Cardinality(firsts) < limit THEN Cardinality(firsts) ELSE limit
     /\ \A m \in 1..Len(gen) : \A n \in 1..Len(gen) : m < n => before(pos[m], pos[n])
     /\ \A i \in firsts \ Range(pos) : \A n \in 1..Len(gen) : before(pos[n], i)

\* C11: the list a generation run shows is the first min(64, n) records of the
\* tautological candidates' texts, repeats of an earlier text removed, sorted by
\* text length with ties in generation order: at most 64 records, lengths
\* non-decreasing, no text twice, no omitted text shorter than a kept one.
C11_RankedResult ==
  [][ DoGenerate => IsRankingOf(generated', TautologyTexts(depth, atomsText), 64) ]_vars

\* A run whose candidates print a text twice and whose tautologies exceed the
\* limit has been ranked.
C11_Witness ==
  /\ Len(generated) = ResultLimit
  /\ status = << "Found", ResultLimit, "tautologies." >>
  /\ atomsText = << "P", ",", NOT_SIGN, "(", "P", ")" >> /\ depth = 2
  /\ \E texts \in { TautologyTexts(depth, atomsText) } :
       /\ ~Distinct(texts)
       /\ Cardinality(Range(texts)) > ResultLimit
       /\ IsRankingOf(generated, texts, ResultLimit)

ExcludedMiddleText == << "P", " ", "|", " ", "!", "P" >>
ModusPonensText ==
  << "(", "P", " ", "-", ">", " ", "Q", ")", " ", "&", " ", "P", " ", "-", ">", " ", "Q" >>
WeakenedText == << "P", " ", "|", " ", "Q", " ", "|", " ", "!", "P" >>
ImplicationText == << "P", " ", "-", ">", " ", "Q" >>
ContradictionText == << "P", " ", "&", " ", "!", "P" >>

\* C13: "P | !P", "(P -> Q) & P -> Q" and "P | Q | !P" parse, and the check
\* reports a tautology with no falsifying assignment; the last two are over
\* P and Q and true under all 4 assignments.
C13_ClassicTautologies ==
  /\ input \in { ExcludedMiddleText, ModusPonensText, WeakenedText } =>
       /\ ~IsError(parsed)
       /\ evaluation = [tautology |-> TRUE, falsifying |-> <<>>]
       /\ \A env \in [NameSet(parsed) -> BOOLEAN] : evalAST(parsed, env)
  /\ input = ExcludedMiddleText => NameSet(parsed) = { <<"P">> } /\ Len(Rows) = 2
  /\ input \in { ModusPonensText, WeakenedText } =>
       NameSet(parsed) = { <<"P">>, <<"Q">> } /\ Len(Rows) = 4

\* Modus ponens in ASCII has been checked and found a tautology.
C13_Witness ==
  /\ input = ModusPonensText /\ ~IsError(parsed)
  /\ evaluation # Null /\ evaluation.tautology /\ Len(Rows) = 4

\* C14: "P -> Q" is not a tautology and has exactly one falsifying assignment
\* out of 4, P true and Q false; "P & !P" is not a tautology and both of its
\* rows falsify it.
C14_KnownNonTautologies ==
  /\ input = ImplicationText =>
       /\ ~IsError(parsed)
       /\ Len(Rows) = 4
       /\ evaluation = [tautology |-> FALSE,
                        falsifying |-> << (<<"P">> :> TRUE) @@ (<<"Q">> :> FALSE) >>]
  /\ input = ContradictionText =>
       /\ ~IsError(parsed)
       /\ Len(Rows) = 2
       /\ evaluation = [tautology |-> FALSE,
                        falsifying |-> << (<<"P">> :> FALSE), (<<"P">> :> TRUE) >>]
       /\ evaluation.falsifying = Rows

\* "P & !P" has been checked: two rows, both falsifying.
C14_Witness ==
  /\ input = ContradictionText /\ evaluation # Null
  /\ ~evaluation.tautology /\ Len(evaluation.falsifying) = 2

(***************************************************************************)
(* The tokenizer on its own: texts typed character by character from the   *)
(* characters it accepts, the parts of its two-character and three-         *)
(* character operators, and characters it rejects.                          *)
(***************************************************************************)
MaxLexLen == 4
LexChars == { "P", "1", "_", " ", "(", "!", "-", ">", "<", "U+2190", "U+2192", "#" }

TypeLex ==
  \E c \in LexChars :
    /\ Len(input) < MaxLexLen
    /\ SetInput(Append(input, c))

NextLex == TypeLex \/ ClearInput

SpecLex == Init /\ [][NextLex]_vars

\* The characters tokenize takes wherever they stand.
AlwaysAccepted ==
  UpperCase \cup LowerCase \cup
  { " ", "U+0009", "U+000A", "U+2192", "U+2194", "U+2261", "U+00AC", "~", "!",
    "U+2227", "&", "U+2228", "|", "(", ")" }
NameChars == UpperCase \cup LowerCase \cup Digits \cup { "_" }

\* src[i], 0-based, "" outside the text.
At(src, i) == IF 0 <= i /\ i < Len(src) THEN src[i + 1] ELSE ""

\* The character at i continues a name: the characters of names that end at i
\* begin with a letter.
InName(src, i) ==
  \E b \in 0..i :
    /\ At(src, b) \in UpperCase \cup LowerCase
    /\ \A j \in b..i : At(src, j) \in NameChars

\* The character at i is not accepted where it stands: it is no character of
\* the language, or part of a malformed "->", "<->" or left-right arrow pair.
Rejected(src, i) ==
  LET c == At(src, i) IN
  ~ \/ c \in AlwaysAccepted
    \/ c \in Digits \cup { "_" } /\ InName(src, i)
    \/ c = "-" /\ At(src, i + 1) = ">"
    \/ c = ">" /\ At(src, i - 1) = "-"
    \/ c = "<" /\ At(src, i + 1) = "-" /\ At(src, i + 2) = ">"
    \/ c = "U+2190" /\ At(src, i + 1) = "U+2192"

RECURSIVE Unlex(_)
\* The characters of a token sequence, one token after the other.
Unlex(toks) == IF toks = <<>> THEN <<>> ELSE Head(toks) \o Unlex(Tail(toks))

RECURSIVE Plain(_, _)
\* The text from i on in ASCII spelling, without white space.
Plain(src, i) ==
  IF ~(i < Len(src)) THEN <<>>
  ELSE LET c == At(src, i) IN
    IF c \in { " ", "U+0009", "U+000A" } THEN Plain(src, i + 1)
    ELSE IF c = "U+2190" THEN <<"<", "-", ">">> \o Plain(src, i + 2)
    ELSE IF c = "U+2192" THEN <<"-", ">">> \o Plain(src, i + 1)
    ELSE IF c \in { "U+2194", "U+2261" } THEN <<"<", "-", ">">> \o Plain(src, i + 1)
    ELSE IF c \in { "U+00AC", "~" } THEN <<"!">> \o Plain(src, i + 1)
    ELSE IF c = "U+2227" THEN <<"&">> \o Plain(src, i + 1)
    ELSE IF c = "U+2228" THEN <<"|">> \o Plain(src, i + 1)
    ELSE <<c>> \o Plain(src, i + 1)

\* The places where a name begins in the text.
NameStarts(src) ==
  { i \in 0..(Len(src) - 1) : At(src, i) \in NameChars /\ At(src, i - 1) \notin NameChars }
IsName(t) ==
  t # <<>> /\ t[1] \in UpperCase \cup LowerCase /\ \A n \in 1..Len(t) : t[n] \in NameChars

\* C15: when a character of the text is rejected, tokenize raises the error
\* that names the first such character and its index, and yields no tokens
\* (so parseFormula yields that error too); otherwise it returns all the
\* tokens of the text: operators in ASCII with "->" and "<->" each one
\* token, parentheses, and one name per run of name characters.
C15_LexAtomic ==
  LET bad == { i \in 0..(Len(input) - 1) : Rejected(input, i) }
      lexed == tokenize(input) IN
  IF bad # {}
  THEN LET first == CHOOSE i \in bad : \A j \in bad : i <= j IN
       /\ lexed = [kind |-> "Error",
                   message |-> <<"Unexpected character", At(input, first), first>>]
       /\ parsed = lexed
  ELSE /\ lexed.kind = "tokens"
       /\ DOMAIN lexed = { "kind", "tokens" }
       /\ \A n \in 1..Len(lexed.tokens) :
            \/ lexed.tokens[n] \in { <<"!">>, <<"&">>, <<"|">>, <<"(">>, <<")">>,
                                      <<"-", ">">>, <<"<", "-", ">">> }
            \/ IsName(lexed.tokens[n])
       /\ Unlex(lexed.tokens) = Plain(input, 0)
       /\ Cardinality({ n \in 1..Len(lexed.tokens) : IsName(lexed.tokens[n]) })
            = Cardinality(NameStarts(input))

\* "P<-": the "<" starts no "<->", the error names it at index 1 and no token
\* is returned for the P before it.
C15_Witness ==
  /\ input = << "P", "<", "-" >>
  /\ tokenize(input) = [kind |-> "Error", message |-> <<"Unexpected character", "<", 1>>]
  /\ parsed = tokenize(input)

(***************************************************************************)
(* Operator spellings: texts typed from every spelling of every operator   *)
(* and a name.                                                             *)
(***************************************************************************)
MaxAliasLen == 3
AliasChars ==
  { "P", "!", "~", "U+00AC", "&", "U+2227", "|", "U+2228",
    "-", ">", "U+2192", "<", "U+2194", "U+2261", "U+2190" }

TypeAlias ==
  \E c \in AliasChars :
    /\ Len(input) < MaxAliasLen
    /\ SetInput(Append(input, c))

NextAlias == TypeAlias \/ ClearInput

SpecAlias == Init /\ [][NextAlias]_vars

\* Each operator token with the texts that spell it.
Spellings ==
  { [token |-> <<"!">>, texts |-> { <<"!">>, <<"~">>, <<"U+00AC">> }],
    [token |-> <<"&">>, texts |-> { <<"&">>, <<"U+2227">> }],
    [token |-> <<"|">>, texts |-> { <<"|">>, <<"U+2228">> }],
    [token |-> <<"-", ">">>, texts |-> { <<"-", ">">>, <<"U+2192">> }],
    [token |-> <<"<", "-", ">">>,
     texts |-> { <<"<", "-", ">">>, <<"U+2194">>, <<"U+2261">>, <<"U+2190", "U+2192">> }] }

\* The text s stands at place a of src (1-based) as an occurrence of the
\* operator op: the text before it is lexed whole and s is lexed after it as
\* the one token of op.
OccursAt(src, a, s, op) ==
  /\ a + Len(s) - 1 <= Len(src)
  /\ SubSeq(src, a, a + Len(s) - 1) = s
  /\ LET before == tokenize(SubSeq(src, 1, a - 1)) IN
     /\ ~IsError(before)
     /\ tokenize(SubSeq(src, 1, a + Len(s) - 1)) =
          [kind |-> "tokens", tokens |-> Append(before.tokens, op.token)]

\* src with the text of length n at place a replaced by t.
Respelled(src, a, n, t) == SubSeq(src, 1, a - 1) \o t \o SubSeq(src, a + n, Len(src))

\* C16: an occurrence of an operator respelled with any other spelling of the
\* same operator gives the same token sequence and the same result of
\* parseFormula; a text that is rejected further on stays rejected for the
\* same character.
C16_AliasesNormalised ==
  \A op \in Spellings : \A s \in op.texts : \A a \in 1..Len(input) :
    OccursAt(input, a, s, op) =>
      \A t \in op.texts :
        LET other == Respelled(input, a, Len(s), t)
            lexed == tokenize(input) IN
        IF IsError(lexed)
        THEN /\ IsError(tokenize(other))
             /\ tokenize(other).message[2] = lexed.message[2]
        ELSE /\ tokenize(other) = lexed
             /\ parseFormula(other) = parsed

\* "P", the left-right arrow, "P": an equivalence, and the same AST with the
\* arrow spelled "<->", with the identity sign and with the arrow pair.
C16_Witness ==
  /\ input = << "P", "U+2194", "P" >>
  /\ ~IsError(parsed) /\ parsed.kind = "iff"
  /\ \A t \in { <<"<", "-", ">">>, <<"U+2261">>, <<"U+2190", "U+2192">> } :
       parseFormula(Respelled(input, 2, 1, t)) = parsed

(***************************************************************************)
(* White space: texts typed from the three white space characters, names,  *)
(* operators and a parenthesis.                                            *)
(***************************************************************************)
MaxSpaceLen == 3
MaxRunLen == 2
SpaceChars == { " ", "U+0009", "U+000A", "P", "Q", "&", "-", ">", "(" }

TypeSpace ==
  \E c \in SpaceChars :
    /\ Len(input) < MaxSpaceLen
    /\ SetInput(Append(input, c))

NextSpace == TypeSpace \/ ClearInput

SpecSpace == Init /\ [][NextSpace]_vars

White == { " ", "U+0009", "U+000A" }
WhiteRuns == UNION { [1..n -> White] : n \in 1..MaxRunLen }

\* What tokenize gives: the token sequence, or the rejected character.
Outcome(src) ==
  LET lexed == tokenize(src) IN
  IF IsError(lexed) THEN << "rejected", lexed.message[2] >> ELSE lexed.tokens

\* Place k (the gap after the first k characters) is an end of src or a
\* boundary between two tokens of a text that is lexed whole.
IsBoundary(src, k) ==
  \/ k = 0
  \/ k = Len(src)
  \/ LET before == tokenize(SubSeq(src, 1, k))
         after == tokenize(SubSeq(src, k + 1, Len(src)))
         whole == tokenize(src) IN
     /\ ~IsError(whole) /\ ~IsError(before) /\ ~IsError(after)
     /\ whole.tokens = before.tokens \o after.tokens

\* Removing the characters a..b of src leaves two name characters adjacent.
JoinsNames(src, a, b) ==
  /\ a > 1 /\ b < Len(src)
  /\ isIdentChar(src[a - 1]) /\ isIdentChar(src[b + 1])

\* C17: white space is never tokenized.  Inserting a run of spaces, tabs and
\* newlines at an end of the input or at a boundary between two tokens, and
\* removing such a run from an end or from between two tokens unless that
\* makes two names adjacent, leaves what tokenize returns unchanged.
C17_WhitespaceSkipped ==
  /\ \A k \in 0..Len(input) : \A run \in WhiteRuns :
       IsBoundary(input, k) =>
         Outcome(SubSeq(input, 1, k) \o run \o SubSeq(input, k + 1, Len(input)))
           = Outcome(input)
  /\ \A a \in 1..Len(input) : \A b \in a..Len(input) :
       ( /\ \A n \in a..b : input[n] \in White
         /\ (a = 1 \/ b = Len(input) \/ ~IsError(tokenize(input)))
         /\ ~JoinsNames(input, a, b) )
       => Outcome(SubSeq(input, 1, a - 1) \o SubSeq(input, b + 1, Len(input)))
            = Outcome(input)

\* "P", a newline, "Q": two names; a longer run between them gives the same
\* two names, and with no white space they are the one name "PQ".
C17_Witness ==
  /\ input = << "P", "U+000A", "Q" >>
  /\ Outcome(input) = << <<"P">>, <<"Q">> >>
  /\ Outcome(<< "P", " ", "U+000A", "U+0009", "Q" >>) = Outcome(input)
  /\ Outcome(<< "P", "Q" >>) = << <<"P", "Q">> >>

(***************************************************************************)
(* Numbers.  A JavaScript number is an IEEE 754 double: a 53 bit mantissa  *)
(* and a power of two, every result rounded to the nearest double, ties to *)
(* the even mantissa.  The numbers of the layout are positive and far      *)
(* from the ends of the exponent range.  A number is [m, e] for m * 2^e,   *)
(* m an odd whole number (or 0, with e = 0) written as a sequence of       *)
(* limbs of LimbBits bits, lowest first, the highest not 0.                *)
(***************************************************************************)
MantissaBits == 53
LimbBits == 13
LimbBase == 2 ^ LimbBits

Limb(a, n) == IF n \in 1..Len(a) THEN a[n] ELSE 0

Trim(a) ==
  LET used == { n \in 1..Len(a) : a[n] # 0 } IN
  IF used = {} THEN <<>>
  ELSE SubSeq(a, 1, CHOOSE n \in used : \A k \in used : n >= k)

\* The limbs of the whole number whose columns (each possibly more than a
\* limb, or less than 0 by a borrow) are cols, from column n on.
RECURSIVE CarryFrom(_, _, _)
CarryFrom(cols, n, carry) ==
  IF n > Len(cols)
  THEN IF carry = 0 THEN <<>>
       ELSE << carry % LimbBase >> \o CarryFrom(cols, n, carry \div LimbBase)
  ELSE LET sum == cols[n] + carry IN
       << sum % LimbBase >> \o CarryFrom(cols, n + 1, sum \div LimbBase)

Carry(cols) == Trim(CarryFrom(cols, 1, 0))

Longer(a, b) == IF Len(a) > Len(b) THEN Len(a) ELSE Len(b)

WholeAdd(a, b) == Carry([n \in 1..Longer(a, b) |-> Limb(a, n) + Limb(b, n)])
\* a - b for a >= b
WholeSub(a, b) == Carry([n \in 1..Longer(a, b) |-> Limb(a, n) - Limb(b, n)])

RECURSIVE ColumnSum(_, _, _, _)
ColumnSum(a, b, k, n) ==
  IF n > Len(a) THEN 0
  ELSE Limb(a, n) * Limb(b, k + 1 - n) + ColumnSum(a, b, k, n + 1)

WholeMul(a, b) ==
  IF a = <<>> \/ b = <<>> THEN <<>>
  ELSE Carry([k \in 1..(Len(a) + Len(b) - 1) |-> ColumnSum(a, b, k, 1)])

WholeOf(n) == Carry(<< n >>)

\* Bit j (from 0) of a.
BitAt(a, j) == (Limb(a, (j \div LimbBits) + 1) \div (2 ^ (j % LimbBits))) % 2

BitLen(a) ==
  IF a = <<>> THEN 0
  ELSE (Len(a) - 1) * LimbBits
       + (CHOOSE k \in 1..LimbBits : 2 ^ (k - 1) <= a[Len(a)] /\ a[Len(a)] < 2 ^ k)

\* a * 2^k
ShiftLeft(a, k) ==
  Carry([n \in 1..(k \div LimbBits) |-> 0]
        \o [n \in 1..Len(a) |-> a[n] * (2 ^ (k % LimbBits))])

\* a \div 2^k
ShiftRight(a, k) ==
  LET drop == k \div LimbBits
      bits == k % LimbBits
  IN Trim([n \in 1..(Len(a) - drop) |->
            (Limb(a, n + drop) \div (2 ^ bits))
            + (Limb(a, n + drop + 1) % (2 ^ bits)) * (2 ^ (LimbBits - bits))])

\* The number m * 2^e in its one form.
Number(m, e) ==
  IF m = <<>> THEN [m |-> <<>>, e |-> 0]
  ELSE LET low == CHOOSE j \in 0..(BitLen(m) - 1) :
                    BitAt(m, j) = 1 /\ \A k \in 0..(j - 1) : BitAt(m, k) = 0
       IN [m |-> ShiftRight(m, low), e |-> e + low]

\* The nearest double to m * 2^e, ties to the even mantissa.
Rounded(m, e) ==
  IF BitLen(m) <= MantissaBits THEN Number(m, e)
  ELSE LET cut == BitLen(m) - MantissaBits
           kept == ShiftRight(m, cut)
           up == /\ BitAt(m, cut - 1) = 1
                 /\ \/ BitAt(kept, 0) = 1
                    \/ \E j \in 0..(cut - 2) : BitAt(m, j) = 1
       IN Number(IF up THEN WholeAdd(kept, << 1 >>) ELSE kept, e + cut)

FromInt(n) == Number(WholeOf(n), 0)

LowerExp(x, y) == IF x.e < y.e THEN x.e ELSE y.e
\* The mantissa of x at the exponent e <= x.e.
Aligned(x, e) == ShiftLeft(x.m, x.e - e)

NumAdd(x, y) ==
  Rounded(WholeAdd(Aligned(x, LowerExp(x, y)), Aligned(y, LowerExp(x, y))), LowerExp(x, y))

\* x - y for x >= y
NumSub(x, y) ==
  Rounded(WholeSub(Aligned(x, LowerExp(x, y)), Aligned(y, LowerExp(x, y))), LowerExp(x, y))

NumMul(x, y) == Rounded(WholeMul(x.m, y.m), x.e + y.e)

NumHalf(x) == IF x.m = <<>> THEN x ELSE [x EXCEPT !.e = @ - 1]

\* The limbs, highest first, of the first n limbs of rem / b after the
\* point, for 0 <= rem < b, and what is left of rem.
RECURSIVE Expand(_, _, _)
Expand(rem, b, n) ==
  IF n = 0 THEN [limbs |-> <<>>, rem |-> rem]
  ELSE LET rest == Expand((rem * LimbBase) % b, b, n - 1) IN
       [limbs |-> << (rem * LimbBase) \div b >> \o rest.limbs, rem |-> rest.rem]

Reverse(s) == [n \in 1..Len(s) |-> s[Len(s) + 1 - n]]

\* a / b for whole numbers 0 < a < b < LimbBase: six limbs of the quotient,
\* and one more bit that says whether anything follows them.
NumDiv(a, b) ==
  LET exp == Expand(a, b, 6)
      whole == Trim(Reverse(exp.limbs))
  IN IF exp.rem = 0 THEN Rounded(whole, 0 - 6 * LimbBits)
     ELSE Rounded(WholeAdd(ShiftLeft(whole, 1), << 1 >>), 0 - 6 * LimbBits - 1)

\* x <= y
NumLeq(x, y) ==
  LET a == Aligned(x, LowerExp(x, y))
      b == Aligned(y, LowerExp(x, y))
  IN \/ Len(a) < Len(b)
     \/ /\ Len(a) = Len(b)
        /\ LET differ == { n \in 1..Len(a) : a[n] # b[n] } IN
           \/ differ = {}
           \/ LET top == CHOOSE n \in differ : \A k \in differ : n >= k
              IN a[top] < b[top]

(***************************************************************************)
(* layoutAST.  The nodes of an AST are objects: heap[a] is the object at   *)
(* address a, and a child is held by its address.                          *)
(***************************************************************************)
\* The objects of ast after those of h, children first, the root last.
RECURSIVE Store(_, _)
Store(h, ast) ==
  IF ast.kind = "var" THEN Append(h, ast)
  ELSE IF ast.kind = "not"
    THEN LET stored == Store(h, ast.value) IN
         Append(stored, [kind |-> "not", value |-> Len(stored)])
  ELSE LET l == Store(h, ast.left)
           r == Store(l, ast.right)
       IN Append(r, [kind |-> ast.kind, left |-> Len(l), right |-> Len(r)])

\* function size(n)
RECURSIVE size(_, _)
size(h, n) ==
  IF h[n].kind = "var" THEN 1
  ELSE IF h[n].kind = "not" THEN size(h, h[n].value)
  ELSE size(h, h[n].left) + size(h, h[n].right)

leafW == 80
\* levelH with the value of leafW.
levelHAsLeafW == leafW
levelH == 90

\* mid with the share of the right child in the place of the left one's.
MidByRight(h, n, x0, x1) ==
  LET rightW == size(h, h[n].right)
      totW == size(h, h[n].left) + rightW
  IN NumAdd(x0, NumMul(NumDiv(rightW, totW), NumSub(x1, x0)))

\* const mid = x0 + (leftW/totW)*(x1-x0);
Mid(h, n, x0, x1) ==
  LET leftW == size(h, h[n].left)
      totW == leftW + size(h, h[n].right)
  IN NumAdd(x0, NumMul(NumDiv(leftW, totW), NumSub(x1, x0)))

\* place with node = n: the input object is written to instead of a copy.
RECURSIVE placeInPlace(_, _, _, _, _, _, _)
placeInPlace(h, n, x0, x1, level, id, calls) ==
  LET node == n
      x == NumHalf(NumAdd(x0, x1))
      y == FromInt(40 + level * levelH)
      h1 == [h EXCEPT ![n] = [x |-> x, y |-> y] @@ ([id |-> id] @@ h[n])]
      called == Append(calls, [node |-> node, x0 |-> x0, x1 |-> x1])
  IN
  IF h1[n].kind = "not"
    THEN LET v == placeInPlace(h1, h1[n].value, x0, x1, level + 1, id + 1, called) IN
         [v EXCEPT !.heap = [v.heap EXCEPT ![node].value = v.node], !.node = node]
  ELSE IF h1[n].kind # "var"
    THEN LET mid == Mid(h1, n, x0, x1)
             l == placeInPlace(h1, h1[n].left, x0, mid, level + 1, id + 1, called)
             hl == [l.heap EXCEPT ![node].left = l.node]
             r == placeInPlace(hl, hl[n].right, mid, x1, level + 1, l.id, l.calls)
         IN [r EXCEPT !.heap = [r.heap EXCEPT ![node].right = r.node], !.node = node]
  ELSE [heap |-> h1, node |-> node, id |-> id + 1, calls |-> called]

\* function place(n, x0, x1, depth), with the heap, the id counter of
\* layoutAST and the calls made so far: the heap, counter and calls after
\* it, and the address of the node it returns.
RECURSIVE place(_, _, _, _, _, _, _)
place(h, n, x0, x1, level, id, calls) ==
  LET \* const node: any = { ...n, id: id++ };
      node == Len(h) + 1
      x == NumHalf(NumAdd(x0, x1))
      y == FromInt(40 + level * levelH)
      \* node.x = x; node.y = y;
      h1 == Append(h, [x |-> x, y |-> y] @@ ([id |-> id] @@ h[n]))
      called == Append(calls, [node |-> node, x0 |-> x0, x1 |-> x1])
  IN
  IF h1[n].kind = "not"
    THEN LET v == place(h1, h1[n].value, x0, x1, level + 1, id + 1, called) IN
         [v EXCEPT !.heap = [v.heap EXCEPT ![node].value = v.node], !.node = node]
  ELSE IF h1[n].kind # "var"
    THEN LET mid == Mid(h1, n, x0, x1)
             l == place(h1, h1[n].left, x0, mid, level + 1, id + 1, called)
             hl == [l.heap EXCEPT ![node].left = l.node]
             r == place(hl, hl[n].right, mid, x1, level + 1, l.id, l.calls)
         IN [r EXCEPT !.heap = [r.heap EXCEPT ![node].right = r.node], !.node = node]
  ELSE [heap |-> h1, node |-> node, id |-> id + 1, calls |-> called]

\* layoutAST with the root placed over the whole width, return place(root, 0, w, 0).
layoutASTWholeWidth(h, root) ==
  LET w == IF size(h, root) * leafW > 320 THEN size(h, root) * leafW ELSE 320
  IN place(h, root, FromInt(0), FromInt(w), 0, 0, <<>>)

\* layoutAST with let id = 1.
layoutASTIdsFromOne(h, root) ==
  LET w == IF size(h, root) * leafW > 320 THEN size(h, root) * leafW ELSE 320
  IN place(h, root, FromInt(40), FromInt(w - 40), 0, 1, <<>>)

\* let id = 0; ...
\* const w = Math.max(size(root)*leafW, 320); return place(root, 40, w-40, 0);
layoutAST(h, root) ==
  LET w == IF size(h, root) * leafW > 320 THEN size(h, root) * leafW ELSE 320
  IN place(h, root, FromInt(40), FromInt(w - 40), 0, 0, <<>>)

MaxLeaves == 6

\* The ASTs of and-nodes over n leaves P, of every shape.
RECURSIVE Shapes(_)
Shapes(n) ==
  IF n = 1 THEN { Var(<<"P">>) }
  ELSE UNION { { Bin("and", l, r) : l \in Shapes(k), r \in Shapes(n - k) } : k \in 1..(n - 1) }

\* <Circuit ast={parsed as AST} /> for an AST of up to MaxLeaves leaves, or
\* the negation of one.
InitLayout ==
  /\ input = InitialInput
  /\ \E n \in 1..MaxLeaves : \E shape \in Shapes(n) : parsed \in { shape, Not(shape) }
  /\ evaluation = Null
  /\ atomsText = InitialAtomsText
  /\ depth = 2
  /\ generated = <<>>
  /\ status = <<>>
  /\ firstRun = Null
  /\ heap = Store(<<>>, parsed)
  /\ tree = 0
  /\ spans = <<>>

\* The address of the AST given to Circuit.
AstRoot == Len(Store(<<>>, parsed))

\* const tree = useMemo(()=>layoutAST(ast),[ast]);
RenderCircuit ==
  /\ tree = 0
  /\ \E laid \in { layoutAST(heap, AstRoot) } :
       /\ heap' = laid.heap
       /\ tree' = laid.node
       /\ spans' = laid.calls
  /\ UNCHANGED <<input, parsed, evaluation, atomsText, depth, generated, status, firstRun>>

NextLayout == RenderCircuit

SpecLayout == InitLayout /\ [][NextLayout]_vars

(***************************************************************************)
(* The spans of the layout, compared without rounding.                     *)
(***************************************************************************)
\* The call of place that returned the node at address a.
SpanOf(a) == spans[CHOOSE k \in 1..Len(spans) : spans[k].node = a]

\* x - y for x >= y, and x * k for a whole number k, exactly.
ExactSub(x, y) ==
  Number(WholeSub(Aligned(x, LowerExp(x, y)), Aligned(y, LowerExp(x, y))), LowerExp(x, y))
ExactTimes(x, k) == Number(WholeMul(x.m, WholeOf(k)), x.e)
Distance(x, y) == IF NumLeq(x, y) THEN ExactSub(y, x) ELSE ExactSub(x, y)

Width(c) == ExactSub(c.x1, c.x0)

\* The spans of the children of every binary node share at most their
\* boundary and lie inside the span of the node.
ChildrenInside ==
  \A k \in 1..Len(spans) :
    LET c == spans[k]
        node == heap[c.node]
    IN node.kind \notin { "var", "not" } =>
         LET l == SpanOf(node.left)
             r == SpanOf(node.right)
         IN /\ NumLeq(c.x0, l.x0) /\ NumLeq(l.x0, l.x1)
            /\ NumLeq(l.x1, r.x0)
            /\ NumLeq(r.x0, r.x1) /\ NumLeq(r.x1, c.x1)

\* The width of the span c is the width of the root span times
\* leafCount(node) / leafCount(root).
IsProportional(c) ==
  ExactTimes(Width(c), size(heap, tree)) = ExactTimes(Width(spans[1]), size(heap, c.node))

\* The same, to within the width of the root span / 2^30.
IsNearlyProportional(c) ==
  LET off == Distance(ExactTimes(Width(c), size(heap, tree)),
                      ExactTimes(Width(spans[1]), size(heap, c.node)))
      allowed == ExactTimes(Width(spans[1]), size(heap, tree))
  IN NumLeq(off, [allowed EXCEPT !.e = @ - 30])

\* C18 as stated: sibling spans share at most their boundary, lie inside the
\* parent's span, and every span is exactly as wide as the root span times
\* leafCount(node) / leafCount(root).
C18_ExactlyProportional ==
  tree # 0 => ChildrenInside /\ \A k \in 1..Len(spans) : IsProportional(spans[k])

\* C18 as it holds: sibling spans share at most their boundary, lie inside
\* the parent's span, and every span is as wide as the root span times
\* leafCount(node) / leafCount(root) up to the rounding of the numbers: to
\* within the root width / 2^30, and exactly under a root of at most 5 leaves.
C18_ProportionalUpToRounding ==
  tree # 0 =>
    /\ ChildrenInside
    /\ \A k \in 1..Len(spans) :
         /\ IsNearlyProportional(spans[k])
         /\ size(heap, tree) <= 5 => IsProportional(spans[k])

\* ((((P and P) and P) and P) and P) and P laid out: the root span is 400
\* wide and the left child's, of 5 leaves, is not exactly 400 * 5 / 6.
C18_Witness ==
  /\ tree # 0
  /\ size(heap, tree) = 6
  /\ Width(spans[1]) = FromInt(400)
  /\ heap[tree].kind = "and"
  /\ size(heap, heap[tree].left) = 5
  /\ ~IsProportional(SpanOf(heap[tree].left))
  /\ IsNearlyProportional(SpanOf(heap[tree].left))

(***************************************************************************)
(* The input of layoutAST after the call.                                  *)
(***************************************************************************)
\* The tree of the object at address a, with every property of its nodes.
RECURSIVE TreeAt(_, _)
TreeAt(h, a) ==
  IF h[a].kind = "var" THEN h[a]
  ELSE IF h[a].kind = "not" THEN [h[a] EXCEPT !.value = TreeAt(h, @)]
  ELSE [h[a] EXCEPT !.left = TreeAt(h, @), !.right = TreeAt(h, @)]

\* The addresses of the nodes of the tree at address a.
RECURSIVE AddressesOf(_, _)
AddressesOf(h, a) ==
  IF h[a].kind = "var" THEN { a }
  ELSE IF h[a].kind = "not" THEN { a } \cup AddressesOf(h, h[a].value)
  ELSE { a } \cup AddressesOf(h, h[a].left) \cup AddressesOf(h, h[a].right)

\* The shape, kinds and names of a tree, without anything else.
RECURSIVE Bare(_)
Bare(t) ==
  IF t.kind = "var" THEN Var(t.name)
  ELSE IF t.kind = "not" THEN Not(Bare(t.value))
  ELSE Bin(t.kind, Bare(t.left), Bare(t.right))

\* C19: layoutAST has no effect on its input.  After the call the input AST
\* is what it was (every node's kind, name and children) with no x, y or id
\* on any node, and the returned tree is made of other objects, with the
\* same shape, kinds and names.
C19_InputUntouched ==
  tree # 0 =>
    /\ \A a \in AddressesOf(heap, AstRoot) : DOMAIN heap[a] \cap { "x", "y", "id" } = {}
    /\ Bare(TreeAt(heap, AstRoot)) = parsed
    /\ TreeAt(heap, AstRoot) = parsed
    /\ AddressesOf(heap, tree) \cap AddressesOf(heap, AstRoot) = {}
    /\ Bare(TreeAt(heap, tree)) = parsed

\* not (P and P) laid out: three input objects and three new ones, the new
\* root with id 0, an x and a y, and its value the new and-node.
C19_Witness ==
  /\ parsed = Not(Bin("and", Var(<<"P">>), Var(<<"P">>)))
  /\ tree # 0
  /\ AstRoot = 4 /\ Len(heap) = 8 /\ tree = 5
  /\ heap[tree].id = 0 /\ heap[tree].x = FromInt(160) /\ heap[tree].y = FromInt(40)
  /\ heap[tree].value = 6 /\ heap[6].id = 1 /\ heap[6].y = FromInt(130)
  /\ heap[AstRoot] = [kind |-> "not", value |-> 3]

(***************************************************************************)
(* The candidates of a generation run.                                     *)
(***************************************************************************)
RECURSIVE CandidatesOfDepth(_, _)
\* One Var per atom; then every Not of, and every And, Or, Implies and Iff of
\* every ordered pair of, the candidates one level down.
CandidatesOfDepth(atoms, d) ==
  IF d = 0 THEN { Var(atoms[n]) : n \in 1..Len(atoms) }
  ELSE LET sub == CandidatesOfDepth(atoms, d - 1) IN
       { Not(s) : s \in sub }
         \cup { Bin(k, a, b) : k \in { "and", "or", "imp", "iff" }, a \in sub, b \in sub }

\* out is all without its duplicates by key, the first occurrence kept.
IsFirstByKey(out, all) ==
  LET keys == Array([n \in 1..Len(all) |-> key(all[n])])
      outKeys == Array([n \in 1..Len(out) |-> key(out[n])])
  IN /\ Cardinality(Range(outKeys)) = Len(out)
     /\ Range(outKeys) = Range(keys)
     /\ IF Len(out) = Len(all) THEN out = all
        ELSE LET first == Array([n \in 1..Len(out) |->
                            CHOOSE m \in 1..Len(all) :
                              /\ keys[m] = outKeys[n]
                              /\ \A k \in 1..(m - 1) : keys[k] # outKeys[n]])
             IN /\ \A n \in 1..Len(out) : out[n] = all[first[n]]
                /\ \A n \in 1..(Len(out) - 1) : first[n] < first[n + 1]

\* C20: build(0) is one Var per atom, build(d) for d from 1 to maxDepth is
\* every Not of a node of build(d - 1) and every And, Or, Implies and Iff of
\* every ordered pair of them, and genFormulas returns the levels 0 to
\* maxDepth one after the other without the duplicates by key, the first
\* occurrence kept.
C20_CandidateConstruction ==
  CandidateCount(depth, Len(SplitAtoms(atomsText))) <= MaxCandidates =>
    LET atoms == SplitAtoms(atomsText)
        levels == Array([d1 \in 1..(depth + 1) |-> build(d1 - 1, atoms)])
    IN /\ levels[1] = [n \in 1..Len(atoms) |-> Var(atoms[n])]
       /\ \A d1 \in 1..(depth + 1) : Range(levels[d1]) = CandidatesOfDepth(atoms, d1 - 1)
       /\ Range(genFormulas(depth, atoms))
            \subseteq UNION { CandidatesOfDepth(atoms, d) : d \in 0..depth }
       /\ IsFirstByKey(genFormulas(depth, atoms), Concat(levels))

\* Depth 2 over the atoms P and P: 2 + 18 + 1314 nodes are built, and the
\* 1 + 5 + 105 different ones are returned.
C20_Witness ==
  /\ depth = 2
  /\ SplitAtoms(atomsText) = << <<"P">>, <<"P">> >>
  /\ Len(build(2, SplitAtoms(atomsText))) = 1314
  /\ Len(genFormulas(depth, SplitAtoms(atomsText))) = 111
  /\ genFormulas(depth, SplitAtoms(atomsText))[2] = Not(Var(<<"P">>))

(***************************************************************************)
(* The shape of the candidates.                                            *)
(***************************************************************************)
RECURSIVE LeafDistances(_)
\* The distances from the root of t to its variable leaves.
LeafDistances(t) ==
  IF t.kind = "var" THEN { 0 }
  ELSE IF t.kind = "not" THEN { n + 1 : n \in LeafDistances(t.value) }
  ELSE { n + 1 : n \in LeafDistances(t.left) \cup LeafDistances(t.right) }

\* C21: every node build(d) returns, for d from 0 to maxDepth, has all its
\* variable leaves at distance exactly d from the root: the operands of a
\* binary node are both of level d - 1.
C21_LeavesAtLevel ==
  CandidateCount(depth, Len(SplitAtoms(atomsText))) <= MaxCandidates =>
    \A d \in 0..depth :
      LET nodes == build(d, SplitAtoms(atomsText)) IN
      \A n \in 1..Len(nodes) : LeafDistances(nodes[n]) = { d }

\* Depth 2 over the atoms P and Q: 1314 nodes of level 2, among them
\* (!P -> (P & Q)), and none such as (P | !P).
C21_Witness ==
  /\ depth = 2
  /\ SplitAtoms(atomsText) = << <<"P">>, <<"Q">> >>
  /\ Len(build(2, SplitAtoms(atomsText))) = 1314
  /\ Bin("imp", Not(Var(<<"P">>)), Bin("and", Var(<<"P">>), Var(<<"Q">>)))
       \in Range(build(2, SplitAtoms(atomsText)))
  /\ Bin("or", Var(<<"P">>), Not(Var(<<"P">>))) \notin Range(build(2, SplitAtoms(atomsText)))

\* Every atom of the list is an identifier as tokenize reads one.
AllIdentifiers(atoms) == \A n \in 1..Len(atoms) : IsIdentifier(atoms[n])

\* C22 as stated: over atoms that are identifiers, two candidates with the
\* same key are the same tree, so add drops a candidate only when the same
\* tree is already kept: every candidate built is returned.
C22_KeyTellsTreesApart ==
  ( /\ CandidateCount(depth, Len(SplitAtoms(atomsText))) <= MaxCandidates
    /\ AllIdentifiers(SplitAtoms(atomsText)) )
  => LET all == AddOrder(depth, SplitAtoms(atomsText)) IN
     /\ \A c \in Range(all) : \A e \in Range(all) : key(c) = key(e) => c = e
     /\ Range(genFormulas(depth, SplitAtoms(atomsText))) = Range(all)

(***************************************************************************)
(* Loading generated formulas into the Check tab.  The atoms and the depth *)
(* are set beforehand, to lists of at most MaxLoadCandidates candidates.   *)
(***************************************************************************)
MaxLoadCandidates == 120
LoadAtoms ==
  { << "P" >>,
    << "P", " ", ",", " ", "Q" >>,
    << "P", ",", "P", "o", "r", "P", ",", "Q" >> }

InitLoad ==
  /\ input = InitialInput
  /\ parsed = ParsedOf(InitialInput)
  /\ evaluation = EvaluationOf(ParsedOf(InitialInput))
  /\ atomsText \in LoadAtoms
  /\ depth \in 0..MaxDepth
  /\ CandidateCount(depth, Len(SplitAtoms(atomsText))) <= MaxLoadCandidates
  /\ generated = <<>>
  /\ status = <<>>
  /\ firstRun = Null
  /\ heap = <<>>
  /\ tree = 0
  /\ spans = <<>>

\* onClick={()=>setInput(g.formula)} on the Load button of record n.
LoadRecord(n) ==
  /\ n \in 1..Len(generated)
  /\ SetInput(generated[n].formula)

Load == \E n \in 1..Len(generated) : LoadRecord(n)

NextLoad == DoGenerate \/ Load \/ PasteInput \/ ClearInput

SpecLoad == InitLoad /\ [][NextLoad]_vars

\* C30: after a generation run over atoms that are identifiers, loading any
\* record of the list gives an input that parses, to the very tree the run
\* generated under that text, and an evaluation that is a tautology with no
\* falsifying assignment.
C30_LoadedIsTautology ==
  [][ \A n \in 1..Len(generated) :
        (LoadRecord(n) /\ AllIdentifiers(SplitAtoms(atomsText))) =>
          LET made == { c \in Range(KeptCandidates(genFormulas(depth, SplitAtoms(atomsText)))) :
                          astToInfix(c) = generated[n].formula }
          IN /\ ~IsError(parsed')
             /\ made # {}
             /\ \A c \in made : parsed' = c
             /\ evaluation' = [tautology |-> TRUE, falsifying |-> <<>>] ]_vars

\* Depth 1 over P and Q was generated and the record of (P -> P) loaded.
C30_Witness ==
  /\ depth = 1 /\ SplitAtoms(atomsText) = << <<"P">>, <<"Q">> >>
  /\ Len(generated) > 0
  /\ \E n \in 1..Len(generated) : generated[n].formula = input
  /\ parsed = Bin("imp", Var(<<"P">>), Var(<<"P">>))
  /\ evaluation = [tautology |-> TRUE, falsifying |-> <<>>]

\* C23: every tree the parser returns for the text of the Check tab, and every
\* candidate genFormulas returns for the atoms and depth of the Generate tab,
\* has at least one variable: isTautology enumerates rows over a name, and
\* doGenerate skips no candidate for having none.
C23_NoVariableFreeTree ==
  /\ ~IsError(parsed) => Len(collectVars(parsed, <<>>)) > 0
  /\ LET cands == genFormulas(depth, SplitAtoms(atomsText))
     IN /\ \A n \in 1..Len(cands) : Len(collectVars(cands[n], <<>>)) > 0
        /\ generated # <<>> =>
             Len(KeptCandidates(cands)) =
               Len(SelectSeq(cands, LAMBDA ast : isTautology(ast).tautology))

\* A run over two atoms at depth 1 has listed its tautologies while the Check
\* tab holds the parsed text "P | !P".
C23_Witness ==
  /\ depth = 1
  /\ SplitAtoms(atomsText) = << <<"P">>, <<"Q">> >>
  /\ generated # <<>>
  /\ parsed = Bin("or", Var(<<"P">>), Not(Var(<<"P">>)))
  /\ Len(genFormulas(depth, SplitAtoms(atomsText))) > Len(generated)

\* The env that gives every name of ast bound by env its value there and
\* every other name of ast the value false.
AbsentAsFalse(ast, env) ==
  [v \in NameSet(ast) |-> IF v \in DOMAIN env THEN env[v] ELSE FALSE]

\* C24 as stated: over every candidate of the Generate tab and every
\* assignment to some of its variables, evalAST returns a boolean, the one it
\* returns when the variables left out are assigned false.
C24_AbsentVariableReadsFalse ==
  CandidateCount(depth, Len(SplitAtoms(atomsText))) <= MaxCandidates =>
    \A ast \in Range(genFormulas(depth, SplitAtoms(atomsText))) :
      \A known \in SUBSET NameSet(ast) : \A env \in [known -> BOOLEAN] :
        /\ evalAST(ast, env) \in BOOLEAN
        /\ evalAST(ast, env) = evalAST(ast, AbsentAsFalse(ast, env))

\* C25 as stated: for a formula of n variables, 31 and more included,
\* allAssignments returns 2^n rows, and a verdict of tautology comes only
\* after every one of them has been built and evaluated to true.
C25_ShiftCountsEveryRow ==
  evaluation # Null =>
    LET n == Cardinality(NameSet(parsed))
        rowCount == Len(allAssignments(SortStrings(collectVars(parsed, <<>>))))
    IN /\ IsPowerOfTwo(rowCount, n)
       /\ evaluation.tautology =>
            /\ rowCount > 0
            /\ \A m \in 1..rowCount : evalAST(parsed, Rows[m])

(***************************************************************************)
(* The ids of the laid-out tree.                                           *)
(***************************************************************************)
\* The ids on the nodes of the tree at address a.
IdsOf(a) == { heap[b].id : b \in AddressesOf(heap, a) }

\* C26: the ids of the tree layoutAST returns are 0 .. n-1 for its n nodes,
\* each on one node, the root's 0; a node's id is below every other id of its
\* subtree, and every id of a binary node's left subtree is below every id of
\* its right subtree.
C26_IdsInPreOrder ==
  tree # 0 =>
    LET nodes == AddressesOf(heap, tree) IN
    /\ Cardinality(nodes) = Cardinality(AddressesOf(heap, AstRoot))
    /\ IdsOf(tree) = 0..(Cardinality(nodes) - 1)
    /\ heap[tree].id = 0
    /\ \A a \in nodes :
         /\ \A i \in IdsOf(a) \ { heap[a].id } : heap[a].id < i
         /\ \A b \in AddressesOf(heap, a) \ { a } : heap[b].id # heap[a].id
         /\ heap[a].kind \notin { "var", "not" } =>
              \A i \in IdsOf(heap[a].left) : \A j \in IdsOf(heap[a].right) : i < j

\* (P and P) and (P and P) laid out: root 0, its left subtree 1, 2, 3 and its
\* right subtree 4, 5, 6.
C26_Witness ==
  /\ parsed = Bin("and", Bin("and", Var(<<"P">>), Var(<<"P">>)),
                         Bin("and", Var(<<"P">>), Var(<<"P">>)))
  /\ tree # 0
  /\ heap[tree].id = 0
  /\ IdsOf(heap[tree].left) = { 1, 2, 3 } /\ heap[heap[tree].left].id = 1
  /\ IdsOf(heap[tree].right) = { 4, 5, 6 } /\ heap[heap[tree].right].id = 4

(***************************************************************************)
(* The coordinates and the child spans of the layout.                      *)
(***************************************************************************)
\* x + y, exactly.
ExactAdd(x, y) ==
  Number(WholeAdd(Aligned(x, LowerExp(x, y)), Aligned(y, LowerExp(x, y))), LowerExp(x, y))

\* The nodes of the tree at address a, each with its depth, a being at depth d.
RECURSIVE WithDepth(_, _)
WithDepth(a, d) ==
  IF heap[a].kind = "var" THEN { [node |-> a, level |-> d] }
  ELSE IF heap[a].kind = "not"
    THEN { [node |-> a, level |-> d] } \cup WithDepth(heap[a].value, d + 1)
  ELSE { [node |-> a, level |-> d] } \cup WithDepth(heap[a].left, d + 1)
         \cup WithDepth(heap[a].right, d + 1)

\* What rounding may add or take: the width of the root span / 2^30.
Slack == [Width(spans[1]) EXCEPT !.e = @ - 30]

\* y is 40 + 90 * depth on every node; the operand of a Not has the span of
\* the Not; the left child of a binary node starts where the node does, the
\* right child ends where the node does and starts where the left one ends.
LevelsAndOuterEnds ==
  /\ \A p \in WithDepth(tree, 0) : heap[p.node].y = FromInt(40 + 90 * p.level)
  /\ \A k \in 1..Len(spans) :
       LET c == spans[k]
           node == heap[c.node]
       IN IF node.kind = "var" THEN TRUE
          ELSE IF node.kind = "not"
            THEN SpanOf(node.value).x0 = c.x0 /\ SpanOf(node.value).x1 = c.x1
          ELSE /\ SpanOf(node.left).x0 = c.x0
               /\ SpanOf(node.right).x1 = c.x1
               /\ SpanOf(node.right).x0 = SpanOf(node.left).x1

\* x is (x0 + x1) / 2: twice x is x0 + x1.
IsMidpoint(c) == ExactTimes(heap[c.node].x, 2) = ExactAdd(c.x0, c.x1)
IsNearlyMidpoint(c) ==
  NumLeq(Distance(ExactTimes(heap[c.node].x, 2), ExactAdd(c.x0, c.x1)), Slack)

\* The left child of the binary node of c ends at
\* x0 + (x1 - x0) * leafCount(left) / leafCount(node).
LeftShare(c) ==
  [ got |-> ExactTimes(ExactSub(SpanOf(heap[c.node].left).x1, c.x0), size(heap, c.node)),
    due |-> ExactTimes(Width(c), size(heap, heap[c.node].left)) ]
IsSplitByLeaves(c) == LeftShare(c).got = LeftShare(c).due
IsNearlySplitByLeaves(c) ==
  NumLeq(Distance(LeftShare(c).got, LeftShare(c).due),
         ExactTimes(Slack, size(heap, c.node)))

IsBinary(c) == heap[c.node].kind \notin { "var", "not" }

\* C27 as stated: x is (x0 + x1)/2 and y is 40 + 90 * d; the operand of a Not
\* gets the span of the Not; the left child of a binary node gets
\* [x0, x0 + (x1 - x0) * leafCount(left) / leafCount(node)] and the right
\* child the rest up to x1.
C27_ExactCoordinates ==
  tree # 0 =>
    /\ LevelsAndOuterEnds
    /\ \A k \in 1..Len(spans) :
         /\ IsMidpoint(spans[k])
         /\ IsBinary(spans[k]) => IsSplitByLeaves(spans[k])

\* C27 as it holds: y, the span of a Not's operand and the outer ends of the
\* child spans are as stated; x and the boundary between the children are
\* the stated numbers up to the rounding of the arithmetic, to within the
\* root width / 2^30.
C27_CoordinatesUpToRounding ==
  tree # 0 =>
    /\ LevelsAndOuterEnds
    /\ \A k \in 1..Len(spans) :
         /\ IsNearlyMidpoint(spans[k])
         /\ IsBinary(spans[k]) => IsNearlySplitByLeaves(spans[k])

\* P and (P and (P and (P and (P and P)))) laid out over [40, 440]: the root
\* is at x 240, y 40, its right child at y 130, and the left child's span
\* does not end exactly at 40 + 400 * 1 / 6.
C27_Witness ==
  /\ tree # 0
  /\ size(heap, tree) = 6
  /\ heap[tree].kind = "and"
  /\ size(heap, heap[tree].left) = 1
  /\ heap[tree].x = FromInt(240) /\ heap[tree].y = FromInt(40)
  /\ heap[heap[tree].right].y = FromInt(130)
  /\ ~IsSplitByLeaves(spans[1])
  /\ IsNearlySplitByLeaves(spans[1])

(***************************************************************************)
(* The span of the root.                                                   *)
(***************************************************************************)
\* max(leafCount(root) * 80, 320)
FullWidth == IF size(heap, tree) * 80 > 320 THEN size(heap, tree) * 80 ELSE 320

\* C28 as stated: the span layoutAST gives the root is
\* max(leafCount(root) * 80, 320) wide.
C28_RootSpanIsFullWidth ==
  tree # 0 => spans[1].node = tree /\ Width(spans[1]) = FromInt(FullWidth)

\* C28 as it holds: the span layoutAST gives the root is [40, w - 40] for
\* w = max(leafCount(root) * 80, 320), so it is w - 80 wide.
C28_RootSpanInsideMargins ==
  tree # 0 =>
    /\ spans[1].node = tree
    /\ spans[1].x0 = FromInt(40)
    /\ spans[1].x1 = FromInt(FullWidth - 40)
    /\ Width(spans[1]) = FromInt(FullWidth - 80)

\* A tree of 5 leaves laid out: w is 400 and the root span [40, 360], 320 wide.
C28_Witness ==
  /\ tree # 0
  /\ size(heap, tree) = 5
  /\ spans[1].node = tree
  /\ spans[1].x0 = FromInt(40) /\ spans[1].x1 = FromInt(360)
  /\ Width(spans[1]) = FromInt(320)

(***************************************************************************)
(* The list held from one generation run to the next.                      *)
(***************************************************************************)
\* C29: in any sequence of runs, the list held after a run is made of that
\* run's tautologies and nothing else: its records carry texts of this run,
\* none twice, all of them or the limit of 64; the status reports their
\* number; and a record of the list held before is in it only if the run
\* itself produced its text.
C29_ListIsThisRunOnly ==
  [][ (firstRun' # firstRun /\ NotedGenerate) =>
        \E texts \in { TautologyTexts(depth, atomsText) } :
          /\ \A n \in 1..Len(generated') : generated'[n].formula \in Range(texts)
          /\ Cardinality({ generated'[n].formula : n \in 1..Len(generated') }) = Len(generated')
          /\ Len(generated') =
               IF Cardinality(Range(texts)) > ResultLimit THEN ResultLimit
               ELSE Cardinality(Range(texts))
          /\ \A n \in 1..Len(generated) :
               generated[n].formula \notin Range(texts) => generated[n] \notin Range(generated')
          /\ status' = << "Found", Len(generated'), "tautologies." >> ]_vars

\* After a first run over P and Q at depth 2 that filled the list, a run over
\* P at depth 1 has left its two tautologies alone in the list.
C29_Witness ==
  /\ firstRun # Null
  /\ firstRun.odd
  /\ Len(firstRun.generated) = ResultLimit
  /\ depth = 1 /\ SplitAtoms(atomsText) = << <<"P">> >>
  /\ generated = << Record(Bin("imp", Var(<<"P">>), Var(<<"P">>))),
                    Record(Bin("iff", Var(<<"P">>), Var(<<"P">>))) >>
  /\ status = << "Found", 2, "tautologies." >>
  /\ \E n \in 1..ResultLimit : firstRun.generated[n] \notin Range(generated)

====
